---- MODULE Spec2Model ----
(***************************************************************************)
(* A model of the HTTP proxy core of suar-be:                              *)
(*   internal/service/http_proxy_service.go  (newOutboundRequest,          *)
(*       ProcessRequest, Execute, httpResponseToDTOResponse, isPrivateIP)  *)
(*   internal/handler/http_proxy_handler.go  (HTTPProxyHandler.ServeHTTP)  *)
(*                                                                         *)
(* Strings are sequences of one-character strings, so that upper-casing,   *)
(* header canonicalisation and scheme extraction are computed character by *)
(* character.  Go's int and time.Duration are 64-bit two's complement      *)
(* integers, kept as four 16-bit limbs (least significant first), so that  *)
(* the millisecond-to-nanosecond multiplication wraps as it does in Go.    *)
(* An IP address is the byte sequence of a net.IP (4 or 16 bytes).         *)
(***************************************************************************)
EXTENDS Integers, Sequences, FiniteSets, TLC

(***************************************************************************)
(* Bounds of the model.                                                    *)
(***************************************************************************)
\* longest list of addresses one DNS answer holds
MaxIPs == 2
\* most short (partial) reads of one response body before the rest arrives
MaxShortReads == 1
\* most redirects httpClient follows within one Do (net/http stops after 10)
MaxRedirects == 1
\* most Register requests served at the same time
MaxCalls == 2

\* the nil of pointers, slices, maps and error values
Nil == <<>>

(***************************************************************************)
(* Characters and strings.                                                 *)
(***************************************************************************)
LowerChars == <<"a","b","c","d","e","f","g","h","i","j","k","l","m",
                "n","o","p","q","r","s","t","u","v","w","x","y","z">>
UpperChars == <<"A","B","C","D","E","F","G","H","I","J","K","L","M",
                "N","O","P","Q","R","S","T","U","V","W","X","Y","Z">>
DigitChars == <<"0","1","2","3","4","5","6","7","8","9">>

Range(s) == { s[i] : i \in DOMAIN s }

IsLower(c) == c \in Range(LowerChars)
IsUpper(c) == c \in Range(UpperChars)
IsLetter(c) == IsLower(c) \/ IsUpper(c)
IsDigit(c) == c \in Range(DigitChars)

IndexIn(s, c) == CHOOSE i \in DOMAIN s : s[i] = c

\* unicode.ToUpper / ToLower on one ASCII character
ToUpperChar(c) == IF IsLower(c) THEN UpperChars[IndexIn(LowerChars, c)] ELSE c
ToLowerChar(c) == IF IsUpper(c) THEN LowerChars[IndexIn(UpperChars, c)] ELSE c

\* strings.ToUpper / strings.ToLower
\* a newOutboundRequest that leaves the method as the caller wrote it
strings_ToUpper_Identity(s) == s

strings_ToUpper(s) == [ i \in DOMAIN s |-> ToUpperChar(s[i]) ]
strings_ToLower(s) == [ i \in DOMAIN s |-> ToLowerChar(s[i]) ]

\* index of the first occurrence of c in s, 0 when there is none
IndexByte(s, c) ==
    IF \E i \in DOMAIN s : s[i] = c
    THEN CHOOSE i \in DOMAIN s : s[i] = c /\ \A j \in 1..(i-1) : s[j] # c
    ELSE 0

\* index of the last occurrence of c in s, 0 when there is none
LastIndexByte(s, c) ==
    IF \E i \in DOMAIN s : s[i] = c
    THEN CHOOSE i \in DOMAIN s : s[i] = c /\ \A j \in (i+1)..Len(s) : s[j] # c
    ELSE 0

HasPrefix(s, p) == Len(s) >= Len(p) /\ SubSeq(s, 1, Len(p)) = p

\* textproto: a byte allowed in a header field name (an RFC 7230 token)
validHeaderFieldByte(c) ==
    IsLetter(c) \/ IsDigit(c) \/
    c \in {"-", ".", "_", "+", "!", "#", "$", "%", "&", "^", "|", "~"}

\* http.CanonicalHeaderKey: the first letter and every letter after a hyphen
\* upper-cased, the others lower-cased; a key holding a byte that is not a
\* token byte (a space, for one) is returned unchanged.
CanonicalHeaderKey(s) ==
    IF \E i \in DOMAIN s : ~validHeaderFieldByte(s[i])
    THEN s
    ELSE [ i \in DOMAIN s |->
            IF i = 1 \/ s[i-1] = "-" THEN ToUpperChar(s[i]) ELSE ToLowerChar(s[i]) ]

(***************************************************************************)
(* 64-bit two's complement integers (Go's int on the 64-bit build, int64,  *)
(* time.Duration): four 16-bit limbs, least significant first.             *)
(***************************************************************************)
LimbBase == 2^16


\* the int64 of a natural number below 2^31
I64(n) == << n % LimbBase, n \div LimbBase, 0, 0 >>

I64Zero == I64(0)

\* a + b (mod 2^64)
I64Add(a, b) ==
    LET s1 == a[1] + b[1]
        s2 == a[2] + b[2] + (s1 \div LimbBase)
        s3 == a[3] + b[3] + (s2 \div LimbBase)
        s4 == a[4] + b[4] + (s3 \div LimbBase)
    IN  << s1 % LimbBase, s2 % LimbBase, s3 % LimbBase, s4 % LimbBase >>

\* -a (mod 2^64)
I64Neg(a) ==
    I64Add([ i \in 1..4 |-> (LimbBase - 1) - a[i] ], I64(1))

\* a * k (mod 2^64) for a small natural k (k < 2^15): the carry out of the top
\* limb is dropped, which is Go's wrap-around of a signed 64-bit product
I64MulSmall(a, k) ==
    LET p1 == a[1] * k
        p2 == a[2] * k + (p1 \div LimbBase)
        p3 == a[3] * k + (p2 \div LimbBase)
        p4 == a[4] * k + (p3 \div LimbBase)
    IN  << p1 % LimbBase, p2 % LimbBase, p3 % LimbBase, p4 % LimbBase >>

\* the sign bit
I64IsNeg(a) == a[4] >= LimbBase \div 2

\* a < b as unsigned 64-bit numbers: compare from the top limb
I64ULess(a, b) ==
    \E i \in 1..4 : a[i] < b[i] /\ \A j \in (i+1)..4 : a[j] = b[j]

\* a < b, a <= b, a > b as signed 64-bit numbers
I64Less(a, b) ==
    IF I64IsNeg(a) # I64IsNeg(b) THEN I64IsNeg(a) ELSE I64ULess(a, b)
I64LessEq(a, b) == a = b \/ I64Less(a, b)
I64Greater(a, b) == I64Less(b, a)

\* time.Duration units, in nanoseconds
time_Microsecond == I64(1000)
time_Millisecond == I64MulSmall(time_Microsecond, 1000)
time_Second == I64MulSmall(time_Millisecond, 1000)

\* time.Duration(ms) * time.Millisecond, wrapping in 64 bits
\* (a multiplication by 10^6 is two multiplications by 1000 modulo 2^64)
MillisToDuration(ms) == I64MulSmall(I64MulSmall(ms, 1000), 1000)

(***************************************************************************)
(* Constants of the service.                                               *)
(***************************************************************************)
maxResponseBodySize == 10 * 1024 * 1024
defaultRequestTimeout == I64MulSmall(time_Second, 30)
maxRequestTimeout == I64MulSmall(time_Second, 90)

M_GET == <<"G","E","T">>
M_POST == <<"P","O","S","T">>
M_PUT == <<"P","U","T">>
M_DELETE == <<"D","E","L","E","T","E">>
M_PATCH == <<"P","A","T","C","H">>
M_HEAD == <<"H","E","A","D">>
M_OPTIONS == <<"O","P","T","I","O","N","S">>

\* the keys of the allowedMethods map (every value is true)
allowedMethods == { M_GET, M_POST, M_PUT, M_DELETE, M_PATCH, M_HEAD, M_OPTIONS }

H_Authorization == <<"A","u","t","h","o","r","i","z","a","t","i","o","n">>
H_Cookie == <<"C","o","o","k","i","e">>
H_ProxyAuthorization == <<"P","r","o","x","y","-">> \o H_Authorization
H_XForwardedFor == <<"X","-","F","o","r","w","a","r","d","e","d","-","F","o","r">>

\* the keys of the blockedHeaders map (every value is true)
blockedHeaders == { H_Authorization, H_Cookie, H_ProxyAuthorization, H_XForwardedFor }

\* the sentinel errors of the service, and the causes the standard library
\* reports; an error value is the chain errors.Is walks, outermost first
ErrInvalidInput == "ErrInvalidInput"
ErrRequestTimeout == "ErrRequestTimeout"
errors_Is(err, target) == err # Nil /\ target \in Range(err.chain)

(***************************************************************************)
(* IP addresses: net.IP is a slice of 4 or of 16 bytes.                    *)
(***************************************************************************)
IPv4(a, b, c, d) == << a, b, c, d >>
\* the 16-byte form of an IPv4 address (::ffff:a.b.c.d)
IPv4Mapped(a, b, c, d) == << 0,0,0,0, 0,0,0,0, 0,0,255,255, a, b, c, d >>
\* a 16-byte address from its first two bytes and its last byte
IPv6(b1, b2, last) == << b1, b2, 0,0, 0,0,0,0, 0,0,0,0, 0,0,0, last >>
IPv6loopback == IPv6(0, 0, 1)

\* net.IP.To4: the 4-byte form, Nil when ip is no IPv4 address
To4(ip) ==
    IF Len(ip) = 4 THEN ip
    ELSE IF /\ Len(ip) = 16
            /\ \A i \in 1..10 : ip[i] = 0
            /\ ip[11] = 255 /\ ip[12] = 255
         THEN SubSeq(ip, 13, 16)
         ELSE Nil

IsLoopback(ip) ==
    IF To4(ip) # Nil THEN To4(ip)[1] = 127 ELSE ip = IPv6loopback

IsLinkLocalMulticast(ip) ==
    IF To4(ip) # Nil
    THEN To4(ip)[1] = 224 /\ To4(ip)[2] = 0 /\ To4(ip)[3] = 0
    ELSE Len(ip) = 16 /\ ip[1] = 255 /\ ip[2] % 16 = 2

IsLinkLocalUnicast(ip) ==
    IF To4(ip) # Nil
    THEN To4(ip)[1] = 169 /\ To4(ip)[2] = 254
    ELSE Len(ip) = 16 /\ ip[1] = 254 /\ (ip[2] \div 64) * 64 = 128

\* an isPrivateIP whose 172 range has no upper end
isPrivateIP_NoUpperEnd(ip) ==
    IF IsLoopback(ip) \/ IsLinkLocalMulticast(ip) \/ IsLinkLocalUnicast(ip)
    THEN TRUE
    ELSE IF To4(ip) # Nil
         THEN LET ip4 == To4(ip)
              IN  \/ ip4[1] = 10
                  \/ (ip4[1] = 172 /\ ip4[2] >= 16)
                  \/ (ip4[1] = 192 /\ ip4[2] = 168)
         ELSE FALSE

\* isPrivateIP checks if a given IP address is private.
isPrivateIP(ip) ==
    IF IsLoopback(ip) \/ IsLinkLocalMulticast(ip) \/ IsLinkLocalUnicast(ip)
    THEN TRUE
    ELSE IF To4(ip) # Nil
         THEN LET ip4 == To4(ip)
              IN  \/ ip4[1] = 10
                  \/ (ip4[1] = 172 /\ ip4[2] >= 16 /\ ip4[2] <= 31)
                  \/ (ip4[1] = 192 /\ ip4[2] = 168)
         ELSE FALSE


(***************************************************************************)
(* net/url: the part of url.Parse that decides the scheme and the host     *)
(* name.  Not modelled: bracketed IPv6 literals and percent-escapes, which *)
(* no URL of SampleURLs contains.                                          *)
(***************************************************************************)
CtlChar == "\n"

Tail0(s, i) == SubSeq(s, i, Len(s))

\* url.getScheme: <<scheme, rest, error>>, the error "" when there is none
getScheme(rawURL) ==
    LET Stop(i) ==          \* the first character that ends the scan
            LET c == rawURL[i]
            IN  ~IsLetter(c) /\ ~(i > 1 /\ (IsDigit(c) \/ c \in {"+", "-", "."}))
        StopsAt(i) ==
            IF rawURL[i] = ":"
            THEN IF i = 1 THEN << <<>>, <<>>, "missing protocol scheme" >>
                 ELSE << SubSeq(rawURL, 1, i - 1), Tail0(rawURL, i + 1), "" >>
            ELSE << <<>>, rawURL, "" >>
        Scan(stops) ==
            IF stops = {} THEN << <<>>, rawURL, "" >>
            ELSE StopsAt(CHOOSE k \in stops : \A j \in stops : k <= j)
    IN  Scan({ i \in DOMAIN rawURL : Stop(i) })

\* url.validOptionalPort: "" or ":" followed by digits only
validOptionalPort(port) ==
    port = <<>> \/ (port[1] = ":" /\ \A i \in 2..Len(port) : IsDigit(port[i]))

\* url.Parse: a record [err, Scheme, Opaque, Host]; err is "" on success.
\* The steps of url.Parse and url.parse are local operators, each applied to
\* what the step before it cut off.
url_Parse(rawURL) ==
    LET Fail(e) == [err |-> e, Scheme |-> <<>>, Opaque |-> <<>>, Host |-> <<>>]
        \* s up to its k-th character, all of s when k = 0
        Before(s, k) == IF k = 0 THEN s ELSE SubSeq(s, 1, k - 1)
        \* parseHost: what follows the last colon is an optional port
        WithPort(scheme, host, colon) ==
            IF colon # 0 /\ ~validOptionalPort(Tail0(host, colon))
            THEN Fail("invalid port after host")
            ELSE [err |-> "", Scheme |-> scheme, Opaque |-> <<>>, Host |-> host]
        WithHost(scheme, host) == WithPort(scheme, host, LastIndexByte(host, ":"))
        \* parseAuthority: the userinfo ends at the last "@"
        WithAuthority(scheme, authority) ==
            WithHost(scheme, Tail0(authority, LastIndexByte(authority, "@") + 1))
        \* the authority ends at the first "/" after the "//"
        AfterSlashes(scheme, a0) ==
            WithAuthority(scheme, Before(a0, IndexByte(a0, "/")))
        \* rest is what follows the scheme, without the query
        AfterScheme(scheme, rest) ==
            IF ~HasPrefix(rest, <<"/">>) /\ scheme # <<>>
            THEN [err |-> "", Scheme |-> scheme, Opaque |-> rest, Host |-> <<>>]
            ELSE IF /\ ~HasPrefix(rest, <<"/">>)
                    /\ IndexByte(Before(rest, IndexByte(rest, "/")), ":") # 0
            THEN Fail("first path segment in URL cannot contain colon")
            ELSE IF /\ (scheme # <<>> \/ ~HasPrefix(rest, <<"/","/","/">>))
                    /\ HasPrefix(rest, <<"/","/">>)
            THEN AfterSlashes(scheme, Tail0(rest, 3))
            ELSE [err |-> "", Scheme |-> scheme, Opaque |-> <<>>, Host |-> <<>>]
        WithScheme(gs) ==
            IF gs[3] # "" THEN Fail(gs[3])
            ELSE AfterScheme(strings_ToLower(gs[1]),
                             Before(gs[2], IndexByte(gs[2], "?")))
        \* u is rawURL without its fragment
        parse(u) ==
            IF \E i \in DOMAIN u : u[i] = CtlChar
            THEN Fail("invalid control character in URL")
            ELSE WithScheme(getScheme(u))
    IN  parse(Before(rawURL, IndexByte(rawURL, "#")))

\* URL.Hostname: the host without a valid port
Hostname(u) ==
    LET colon == LastIndexByte(u.Host, ":")
    IN  IF colon # 0 /\ validOptionalPort(Tail0(u.Host, colon))
        THEN SubSeq(u.Host, 1, colon - 1)
        ELSE u.Host

S_http == <<"h","t","t","p">>
S_https == <<"h","t","t","p","s">>


(***************************************************************************)
(* Errors.  An error value is a record: chain is what errors.Is walks      *)
(* (outermost first), msg the reason the outermost error was made with.    *)
(***************************************************************************)
\* a rejection that formats the sentinel with %v instead of wrapping it
InvalidInput_NotWrapped(reason) == [chain |-> << >>, msg |-> reason]

\* fmt.Errorf("%w: <reason>", ErrInvalidInput)
InvalidInput(reason) == [chain |-> << ErrInvalidInput >>, msg |-> reason]

\* the error http.Client.Do returns: a *url.Error wrapping the cause
DoError(cause) == [chain |-> << "url.Error", cause >>, msg |-> cause]

\* fmt.Errorf("%w: %v", ErrRequestTimeout, err): err is formatted, not wrapped
TimeoutError(err) == [chain |-> << ErrRequestTimeout >>, msg |-> err.msg]

\* fmt.Errorf("failed to execute request to target server: %w", err)
ExecutionError(err) ==
    [chain |-> << "failed to execute request to target server" >> \o err.chain,
     msg |-> err.msg]

(***************************************************************************)
(* The inputs the model draws from.                                        *)
(***************************************************************************)
SampleMethods ==
    { M_GET, <<"g","E","t">>, <<"T","R","A","C","E">>, <<"t","r","a","c","e">>, <<>> }

U_host == <<"/","/","a",".","b","/">>
SampleURLs ==
    { S_http \o <<":">> \o U_host,                                  \* http://a.b/
      <<"H","T","T","P","S",":","/","/","u","@","c",":","8","0","/","x","?","q">>,
                                                                    \* HTTPS://u@c:80/x?q
      <<"f","t","p",":">> \o U_host,                                \* ftp://a.b/
      <<"f","i","l","e",":","/","/","/","e">>,                      \* file:///e
      <<"a",".","b","/","c">>,                                      \* a.b/c
      <<":","a">>,                                                  \* :a
      <<"h","t","t","p",":","/","/","a",":","x","/">>,              \* http://a:x/
      <<"h","t","t","p",":","a">>,                                  \* http:a
      <<>> }

\* timeouts in milliseconds: 0, small, the ceiling and just above it, a
\* negative one, and two whose product with 10^6 leaves the 64-bit range:
\* 9223372036855 (the product is negative) and 18446744073710 (the product
\* is 448384 ns)
T_wrapNeg == << 23287, 31696, 2147, 0 >>
T_wrapPos == << 46574, 63392, 4294, 0 >>
SampleTimeouts ==
    { I64(0), I64(1), I64(90000), I64(90001), I64Neg(I64(1)),
      T_wrapNeg, T_wrapPos }

K_authorization == <<"a","u","t","h","o","r","i","z","a","t","i","o","n">>
K_COOKIE == <<"C","O","O","K","I","E">>
K_ProxyAuth == <<"P","r","o","x","y","-","a","u","t","h","o","r","i","z","a","t","i","o","n">>
K_xForwardedFor == <<"x","-","F","O","R","W","A","R","D","E","D","-","f","o","r">>
K_accept == <<"a","c","c","e","p","t">>
\* "Cookie " with a trailing space: no token, so never canonicalised
K_CookieSpace == <<"C","o","o","k","i","e"," ">>

\* a map[string][]string from its keys, each with two values in the given order
HeaderMap(keys, v1, v2) == [ k \in keys |-> << v1, v2 >> ]

\* header maps: none, and blocked names in several letter cases beside other
\* names
SampleHeaders ==
    { << >>,
      HeaderMap({K_authorization, K_accept}, "1", "2"),
      HeaderMap({K_COOKIE, K_CookieSpace}, "2", "1"),
      HeaderMap({K_ProxyAuth, K_xForwardedFor, K_accept}, "2", "2") }

\* a body: `repeat` copies of `bytes` (so that a body as long as the response
\* cap can be written down); the nil RawMessage is the body of length 0
RawMessage(bytes, repeat) == [bytes |-> bytes, repeat |-> repeat]
len(b) == Len(b.bytes) * b.repeat

\* no body, the JSON value {}, and a JSON number of maxResponseBodySize digits
SampleBodies ==
    { RawMessage(<<>>, 0), RawMessage(<< "{", "}" >>, 1),
      RawMessage(<< "1" >>, maxResponseBodySize) }

\* model.DTORequest: the descriptions that differ in at most two fields from
\* the plain one (GET http://a.b/ with no headers, no body and no timeout)
PlainRequest ==
    [Method |-> M_GET, URL |-> S_http \o <<":">> \o U_host, Headers |-> << >>,
     Body |-> RawMessage(<<>>, 0), Timeout |-> I64(0)]
DTORequest ==
    { d \in [Method : SampleMethods, URL : SampleURLs, Headers : SampleHeaders,
             Body : SampleBodies, Timeout : SampleTimeouts] :
        Cardinality({ f \in DOMAIN PlainRequest : d[f] # PlainRequest[f] }) <= 2 }

\* one public address and one of each kind the validator refuses
SampleIPs ==
    { IPv4(93, 184, 216, 34), IPv4(10, 0, 0, 5), IPv4(172, 31, 255, 255),
      IPv4(192, 168, 1, 1), IPv6loopback, IPv4(169, 254, 169, 254),
      IPv6(255, 2, 1) }

\* the answers of net.LookupIP: a non-empty list of at most MaxIPs addresses,
\* of which at most one, at any position, is not the public one
PublicIP == IPv4(93, 184, 216, 34)
SampleIPLists ==
    UNION { { l \in [1..n -> SampleIPs] :
                Cardinality({ i \in 1..n : l[i] # PublicIP }) <= 1 } : n \in 1..MaxIPs }

(***************************************************************************)
(* What every call shares: the package-level maps allowedMethods and       *)
(* blockedHeaders, which Go lets any code of the package write, and the    *)
(* one field of the HTTPProxyService.                                      *)
(***************************************************************************)
VARIABLE globals

\* the maps as their literals initialise them, and the client
\* NewHTTPProxyService builds
InitialGlobals ==
    [allowedMethods |-> allowedMethods, blockedHeaders |-> blockedHeaders,
     httpClient |-> "&http.Client{Transport: transport}"]

(***************************************************************************)
(* newOutboundRequest, check by check.                                     *)
(***************************************************************************)
\* !allowedMethods[dto.Method], on the upper-cased method
methodAllowed(method) == method \in globals.allowedMethods

\* a newOutboundRequest without the scheme check
schemeAllowed_Any(u) == TRUE

\* parsedURL.Scheme != "http" && parsedURL.Scheme != "https"
schemeAllowed(u) == u.Scheme = S_http \/ u.Scheme = S_https

\* a newOutboundRequest that looks at the URL before it looks at the method
preLookupError_URLFirst(method, rawURL) ==
    IF rawURL = <<>>
    THEN InvalidInput("URL cannot be empty")
    ELSE IF url_Parse(rawURL).err # ""
    THEN InvalidInput("failed to parse URL")
    ELSE IF ~schemeAllowed(url_Parse(rawURL))
    THEN InvalidInput("invalid URL scheme")
    ELSE IF ~methodAllowed(method)
    THEN InvalidInput("invalid or unsupported HTTP method")
    ELSE Nil

\* the checks made before the DNS lookup, in the order of the code: the error
\* of the first check that fails, Nil when all pass
preLookupError(method, rawURL) ==
    IF ~methodAllowed(method)
    THEN InvalidInput("invalid or unsupported HTTP method")
    ELSE IF rawURL = <<>>
    THEN InvalidInput("URL cannot be empty")
    ELSE IF url_Parse(rawURL).err # ""
    THEN InvalidInput("failed to parse URL")
    ELSE IF ~schemeAllowed(url_Parse(rawURL))
    THEN InvalidInput("invalid URL scheme")
    ELSE Nil

\* the answers net.LookupIP can give for a host name: an error (Nil) or a
\* list of addresses; the empty host name never resolves
LookupIPAnswers(host) ==
    IF host = <<>> THEN { Nil } ELSE { Nil } \cup SampleIPLists

\* a check of the first resolved address only
anyPrivateIP_FirstOnly(addrs) == addrs # <<>> /\ isPrivateIP(addrs[1])

\* for _, ip := range ips { if isPrivateIP(ip) { return ... } }
anyPrivateIP(addrs) == \E i \in DOMAIN addrs : isPrivateIP(addrs[i])

\* the timeout of the request: the default for dto.Timeout <= 0, otherwise
\* time.Duration(dto.Timeout) * time.Millisecond
resolveTimeout(t) ==
    IF I64LessEq(t, I64Zero) THEN defaultRequestTimeout ELSE MillisToDuration(t)

\* timeout > maxRequestTimeout
timeoutTooLarge(timeout) == I64Greater(timeout, maxRequestTimeout)

\* a filter that compares the caller's key as written to the blocked names
filterHeaders_ExactCase(h) ==
    [ key \in { k \in DOMAIN h : k \notin globals.blockedHeaders } |-> h[key] ]

\* the headers of the request: every key of dto.Headers whose canonical form
\* is not blocked, with the caller's values
filterHeaders(h) ==
    [ key \in { k \in DOMAIN h : CanonicalHeaderKey(k) \notin globals.blockedHeaders }
        |-> h[key] ]

\* a newOutboundRequest that drops the error of net.LookupIP
postLookupError_LookupErrorIgnored(answer, t) ==
    IF answer # Nil /\ anyPrivateIP(answer)
    THEN InvalidInput("requests to private IP addresses are not allowed")
    ELSE IF timeoutTooLarge(resolveTimeout(t))
    THEN InvalidInput("timeout exceeds the maximum allowed limit")
    ELSE Nil

\* a newOutboundRequest that reports a failed lookup as a network failure
postLookupError_LookupErrorAsFailure(answer, t) ==
    IF answer = Nil
    THEN [chain |-> << "could not resolve hostname", "net.DNSError" >>,
          msg |-> "could not resolve hostname"]
    ELSE IF anyPrivateIP(answer)
    THEN InvalidInput("requests to private IP addresses are not allowed")
    ELSE IF timeoutTooLarge(resolveTimeout(t))
    THEN InvalidInput("timeout exceeds the maximum allowed limit")
    ELSE Nil

\* the checks made once the lookup has answered
postLookupError(answer, t) ==
    IF answer = Nil
    THEN InvalidInput("could not resolve hostname")
    ELSE IF anyPrivateIP(answer)
    THEN InvalidInput("requests to private IP addresses are not allowed")
    ELSE IF timeoutTooLarge(resolveTimeout(t))
    THEN InvalidInput("timeout exceeds the maximum allowed limit")
    ELSE Nil

\* the OutboundRequest built from a description that passed every check
OutboundRequest(d) ==
    [Method |-> d.Method, URL |-> url_Parse(d.URL), Headers |-> filterHeaders(d.Headers),
     Body |-> d.Body, Timeout |-> resolveTimeout(d.Timeout)]

(***************************************************************************)
(* The state: one inbound call, from its arrival to its answer.            *)
(***************************************************************************)
(***************************************************************************)
(* authService.Register, AuthHandler.Register and the users table.         *)
(***************************************************************************)
\* the sentinel errors.New("email is already taken")
ErrEmailTaken == "email is already taken"

\* the error value ErrEmailTaken; msg holds the parts of err.Error()
EmailTaken == [chain |-> << ErrEmailTaken >>, msg |-> << ErrEmailTaken >>]

\* an error of database/sql or of the driver
DBError(text) == [chain |-> << text >>, msg |-> << text >>]

\* the INSERT breaks the UNIQUE constraint of users.email
UniqueViolation ==
    DBError("pq: duplicate key value violates unique constraint \"users_email_key\"")

\* the query fails for a reason of its own (connection, context)
BadConnection == DBError("driver: bad connection")

\* fmt.Errorf(prefix + ": %w", err)
Wrapf(prefix, err) ==
    [chain |-> << prefix >> \o err.chain, msg |-> << prefix >> \o err.msg]

\* strings.Contains(err.Error(), "already taken"): of the parts a message is
\* made of here, only the text of ErrEmailTaken holds "already taken"
ContainsAlreadyTaken(err) == \E i \in DOMAIN err.msg : err.msg[i] = ErrEmailTaken

\* the emails the Register requests carry
AuthEmails == { "a@suar.net", "b@suar.net" }

\* the Register requests served at the same time
AuthCalls == 1..MaxCalls

\* no request yet, and an empty users table
AuthInit ==
    [users |-> << >>,
     calls |-> [c \in AuthCalls |->
                  [pc |-> "idle", email |-> "", user |-> Nil, err |-> Nil, answer |-> 0]]]

\* the second call before it starts
PeerInit ==
    [pc |-> "idle", inbound |-> Nil, dto |-> Nil, ips |-> Nil, nerr |-> Nil,
     req |-> Nil, httpResp |-> Nil, ret |-> Nil]

VARIABLES
    pc,        \* where the call is
    entry,     \* "handler": ServeHTTP calls ProcessRequest; "direct": a caller of the service does
    inbound,   \* the description as the caller gave it
    dto,       \* the DTORequest object newOutboundRequest works on
    lookups,   \* the host names given to net.LookupIP, in order
    ips,       \* the answer of net.LookupIP (a local of newOutboundRequest)
    req,       \* the OutboundRequest newOutboundRequest returned
    nerr,      \* the error newOutboundRequest returned
    scope,     \* reqCtx, the context Execute runs the call under
    ended,     \* why reqCtx ended while the call was in flight
    wire,      \* the http.Requests given to httpClient.Do, in order
    doErr,     \* the error httpClient.Do returned
    httpResp,  \* the *http.Response Do returned
    reader,    \* the io.LimitedReader over the response body, the bytes read, the read error
    clock,     \* time.Now() (now), and Execute's startTime and duration
    ret,       \* what ProcessRequest returned: [resp, err]
    out,       \* what ServeHTTP answered: [code, payload]
    defers,    \* the deferred calls Execute and httpResponseToDTOResponse have run, in order
    hops,      \* the URLs httpClient has sent a request to, in order
    verdict,   \* what the SSRF step found for a list of addresses: [addrs, private, rejected]
    auth,      \* the users table and the Register calls in flight (authService, AuthHandler)
    peer       \* a second ProcessRequest call on the same HTTPProxyService, in coarser steps

vars == << pc, entry, inbound, dto, lookups, ips, req, nerr, scope, ended,
           wire, doErr, httpResp, reader, clock, ret, out, defers, hops,
           verdict, auth, globals, peer >>

\* time passes in the calls that wait for the network: each call of
\* net.LookupIP, of httpClient.Do and of Read takes one tick of the clock
Tick(c) == [c EXCEPT !.now = c.now + 1]

\* time.Since(startTime) on clock c
Since(c) == c.now - c.startTime

Init ==
    /\ pc = "idle"
    /\ entry = "none"
    /\ inbound = Nil
    /\ dto = Nil
    /\ lookups = <<>>
    /\ ips = Nil
    /\ req = Nil
    /\ nerr = Nil
    /\ scope = "none"
    /\ ended = "none"
    /\ wire = <<>>
    /\ doErr = Nil
    /\ clock = [now |-> 0, startTime |-> 0, duration |-> 0]
    /\ httpResp = Nil
    /\ reader = Nil
    /\ ret = Nil
    /\ out = Nil
    /\ defers = << >>
    /\ hops = << >>
    /\ verdict = Nil
    /\ auth = AuthInit
    /\ globals = InitialGlobals
    /\ peer = PeerInit


(***************************************************************************)
(* HTTPProxyHandler.ServeHTTP, up to its call of ProcessRequest.           *)
(***************************************************************************)
\* respondWithError: the answer {"error": message} with a status code
ErrorAnswer(code, message) == [code |-> code, payload |-> [error |-> message]]

\* validator's url tag on DTORequest.URL: the URL parses, has a scheme, and
\* has a host or an opaque part (or is a file: URL)
isURL(rawURL) ==
    LET Usable(u) ==
            u.err = "" /\ u.Scheme # <<>> /\ (u.Host # <<>> \/ u.Opaque # <<>>)
    IN  /\ rawURL # <<>>
        /\ \/ HasPrefix(strings_ToLower(rawURL), <<"f","i","l","e",":","/","/">>)
           \/ Usable(url_Parse(strings_ToLower(rawURL)))

\* the tags of DTORequest that validate.Struct decides by itself: required on
\* Method and URL, url on URL, gte=0 and lte=90000 on Timeout
tagsHold(d) ==
    /\ d.Method # <<>>
    /\ d.URL # <<>>
    /\ isURL(d.URL)
    /\ I64LessEq(I64Zero, d.Timeout)
    /\ I64LessEq(d.Timeout, I64(90000))

\* r.Method != http.MethodPost
ServeHTTP_MethodNotAllowed ==
    /\ pc = "idle"
    /\ entry' = "handler"
    /\ out' = ErrorAnswer(405, "Invalid request method")
    /\ pc' = "done"
    /\ UNCHANGED << inbound, dto, lookups, ips, req, nerr, scope, ended, wire,
                    doErr, httpResp, reader, clock, ret, defers, hops,
                    verdict, auth, globals, peer >>

\* the body of a POST does not decode into a DTORequest
ServeHTTP_BadJSON ==
    /\ pc = "idle"
    /\ entry' = "handler"
    /\ out' = ErrorAnswer(400, "Invalid JSON format")
    /\ pc' = "done"
    /\ UNCHANGED << inbound, dto, lookups, ips, req, nerr, scope, ended, wire,
                    doErr, httpResp, reader, clock, ret, defers, hops,
                    verdict, auth, globals, peer >>

\* the body of a POST decodes into d; validate.Struct(&dto) decides.  The
\* httpmethod tag on Method (api.go) names a validation that is registered
\* nowhere (validator.go only calls validator.New()): the validator panics
\* on an undefined tag when it first reads the tags of the struct, whatever
\* d holds, and ServeHTTP writes no answer.  In a build whose DTORequest has
\* no such tag (dto.go) the other tags decide (methodTagOK).
ServeHTTP_Decoded(d, methodTagOK) ==
    /\ pc = "idle"
    /\ entry' = "handler"
    /\ inbound' = d
    /\ dto' = d
    /\ IF ~methodTagOK
       THEN /\ pc' = "panicked"
            /\ out' = out
       ELSE IF tagsHold(d)
       THEN /\ pc' = "nor"
            /\ out' = out
       ELSE /\ pc' = "done"
            /\ out' = ErrorAnswer(400, "validation failed")
    /\ UNCHANGED << lookups, ips, req, nerr, scope, ended, wire, doErr,
                    httpResp, reader, clock, ret, defers, hops, verdict, auth,
                    globals, peer >>

\* a caller of the service calls ProcessRequest(ctx, &d) itself
ProcessRequest_Call(d) ==
    /\ pc = "idle"
    /\ entry' = "direct"
    /\ inbound' = d
    /\ dto' = d
    /\ pc' = "nor"
    /\ UNCHANGED << lookups, ips, req, nerr, scope, ended, wire, doErr,
                    httpResp, reader, clock, ret, out, defers, hops, verdict,
                    auth, globals, peer >>

(***************************************************************************)
(* newOutboundRequest.                                                     *)
(***************************************************************************)
\* a newOutboundRequest that notes the method it has just looked up in the
\* shared map (allowedMethods[dto.Method] = true)
newOutboundRequest_Check_NotesMethod ==
    /\ pc = "nor"
    /\ LET method == strings_ToUpper(dto.Method)
           e == preLookupError(method, dto.URL)
       IN  /\ dto' = [dto EXCEPT !.Method = method]
           /\ globals' = [globals EXCEPT !.allowedMethods = @ \cup { method }]
           /\ IF e # Nil
              THEN /\ nerr' = e
                   /\ lookups' = lookups
                   /\ pc' = "nor_ret"
              ELSE /\ nerr' = nerr
                   /\ lookups' = Append(lookups, Hostname(url_Parse(dto.URL)))
                   /\ pc' = "nor_dns"
    /\ UNCHANGED << entry, inbound, ips, req, scope, ended, wire, doErr,
                    httpResp, reader, clock, ret, out, defers, hops, verdict,
                    auth, peer >>

\* from its entry to the call of net.LookupIP (or to the first rejection)
newOutboundRequest_Check ==
    /\ pc = "nor"
    /\ LET method == strings_ToUpper(dto.Method)
           e == preLookupError(method, dto.URL)
       IN  /\ dto' = [dto EXCEPT !.Method = method]
           /\ IF e # Nil
              THEN /\ nerr' = e
                   /\ lookups' = lookups
                   /\ pc' = "nor_ret"
              ELSE /\ nerr' = nerr
                   /\ lookups' = Append(lookups, Hostname(url_Parse(dto.URL)))
                   /\ pc' = "nor_dns"
    /\ UNCHANGED << entry, inbound, ips, req, scope, ended, wire, doErr,
                    httpResp, reader, clock, ret, out, defers, hops, verdict,
                    auth, globals, peer >>

\* net.LookupIP answers; the rest of newOutboundRequest
newOutboundRequest_Lookup(answer) ==
    /\ pc = "nor_dns"
    /\ answer \in LookupIPAnswers(lookups[Len(lookups)])
    /\ ips' = answer
    /\ clock' = Tick(clock)
    /\ LET e == postLookupError(answer, dto.Timeout)
       IN  IF e # Nil
           THEN nerr' = e /\ req' = req
           ELSE nerr' = nerr /\ req' = OutboundRequest(dto)
    /\ pc' = "nor_ret"
    /\ UNCHANGED << entry, inbound, dto, lookups, scope, ended, wire, doErr,
                    httpResp, reader, ret, out, defers, hops, verdict, auth,
                    globals, peer >>


(***************************************************************************)
(* ProcessRequest and Execute.                                             *)
(***************************************************************************)
\* the first k bytes of the target's body
Bytes(k) == [prefix |-> k]

\* model.DTOResponse; Body is a prefix of the target's body (Nil for a nil
\* slice), Error is "" when unset
DTOResponse(status, duration, timestamp, size, headers, body, error) ==
    [StatusCode |-> status, Duration |-> duration, Timestamp |-> timestamp,
     Size |-> size, Headers |-> headers, Body |-> body, Error |-> error]

\* the http.Request Execute gives to Do
HTTPRequest(r) ==
    [Method |-> r.Method, URL |-> r.URL, Header |-> r.Headers,
     Body |-> IF len(r.Body) > 0 THEN r.Body ELSE Nil]

\* what the target can answer
H_ContentType == <<"C","o","n","t","e","n","t","-","T","y","p","e">>
H_SetCookie == <<"S","e","t","-","C","o","o","k","i","e">>
SampleResponseHeads ==
    { [StatusCode |-> 200, Header |-> [k \in {H_ContentType} |-> << "text/plain" >>]],
      [StatusCode |-> 500, Header |-> [k \in {H_SetCookie} |-> << "a=1", "b=2" >>]] }
SampleBodyLens ==
    { 0, 1, maxResponseBodySize - 1, maxResponseBodySize, maxResponseBodySize + 1 }
SampleResponses ==
    { [StatusCode |-> h.StatusCode, Header |-> h.Header, BodyLen |-> n, Echo |-> FALSE] :
        h \in SampleResponseHeads, n \in SampleBodyLens }

\* the answer of a target that echoes the request `sent`: status 200, the
\* header fields it received (net/http stores the fields of a response under
\* their canonical names; the sample descriptions hold no two keys with the
\* same canonical name) and the method in a field of its own, and the body it
\* received as its body
H_XEchoMethod == <<"X","-","E","c","h","o","-","M","e","t","h","o","d">>
EchoHeader(sent) ==
    [ c \in { CanonicalHeaderKey(k) : k \in DOMAIN sent.Header } \cup { H_XEchoMethod } |->
        IF c = H_XEchoMethod
        THEN << sent.Method >>
        ELSE sent.Header[CHOOSE k \in DOMAIN sent.Header : CanonicalHeaderKey(k) = c] ]
EchoResponse(sent) ==
    [StatusCode |-> 200, Header |-> EchoHeader(sent),
     BodyLen |-> IF sent.Body = Nil THEN 0 ELSE len(sent.Body), Echo |-> TRUE]

\* what Do can return for the request `sent`
TargetResponses(sent) == SampleResponses \cup { EchoResponse(sent) }

\* what the server at a redirect's location answers
RedirectedResponses ==
    { [StatusCode |-> 200, Header |-> [k \in {H_ContentType} |-> << "text/plain" >>],
       BodyLen |-> 1, Echo |-> FALSE] }

\* why reqCtx ends: its own timeout runs out, or the inbound context reaches
\* its deadline or is cancelled
EndReasons == { "timeout", "parentDeadline", "parentCanceled" }

\* why httpClient.Do can fail: reqCtx has ended, or the network fails
DoFailures == EndReasons \cup { "connection refused" }

\* the cause Do or Read reports for a failure
DoCause(why) ==
    CASE why \in {"timeout", "parentDeadline"} -> "context.DeadlineExceeded"
      [] why = "parentCanceled" -> "context.Canceled"
      [] OTHER -> why

\* an Execute that takes the end of the context for any reason as a timeout
executeError_AnyContextEnd(err) ==
    IF errors_Is(err, "context.DeadlineExceeded") \/ errors_Is(err, "context.Canceled")
    THEN TimeoutError(err)
    ELSE ExecutionError(err)

\* an Execute that does not look for context.DeadlineExceeded
executeError_Unclassified(err) == ExecutionError(err)

\* the error Execute returns when Do failed with err
executeError(err) ==
    IF errors_Is(err, "context.DeadlineExceeded")
    THEN TimeoutError(err)
    ELSE ExecutionError(err)

\* if err != nil { return nil, err }
ProcessRequest_Reject ==
    /\ pc = "nor_ret"
    /\ nerr # Nil
    /\ ret' = [resp |-> Nil, err |-> nerr]
    /\ pc' = "returned"
    /\ UNCHANGED << entry, inbound, dto, lookups, ips, req, nerr, scope,
                    ended, wire, doErr, httpResp, reader, clock, out, defers,
                    hops, verdict, auth, globals, peer >>

\* a reqCtx made from context.Background(): the end of the inbound context
\* does not reach it
Context_Ends_InboundIgnored(why) ==
    /\ \/ pc = "nor_dns" /\ why # "timeout"
       \/ pc \in {"do", "reading"} /\ scope = "active"
    /\ ended = "none"
    /\ why \in EndReasons
    /\ ended' = why
    /\ scope' = IF why = "timeout" THEN "ended" ELSE scope
    /\ UNCHANGED << pc, entry, inbound, dto, lookups, ips, req, nerr, wire,
                    doErr, httpResp, reader, clock, ret, out, defers, hops,
                    verdict, auth, globals, peer >>

\* the inbound context ends (its deadline, or its cancellation) while
\* newOutboundRequest waits for net.LookupIP or while Execute is in flight, or
\* reqCtx's timer fires; reqCtx, made by
\* context.WithTimeout(ctx, outboundRequest.Timeout), ends with whichever
\* comes first
Context_Ends(why) ==
    /\ \/ pc = "nor_dns" /\ why # "timeout"
       \/ pc \in {"do", "reading"} /\ scope = "active"
    /\ ended = "none"
    /\ why \in EndReasons
    /\ ended' = why
    /\ scope' = IF scope = "active" THEN "ended" ELSE scope
    /\ UNCHANGED << pc, entry, inbound, dto, lookups, ips, req, nerr, wire,
                    doErr, httpResp, reader, clock, ret, out, defers, hops,
                    verdict, auth, globals, peer >>

\* return s.Execute(ctx, outboundRequest), up to the call of httpClient.Do:
\* time.Now, context.WithTimeout (a context that has ended already when ctx
\* has, or when the timeout is not positive), then
\* http.NewRequestWithContext, which the standard library may refuse
\* (newRequestFails)
Execute_Start(newRequestFails) ==
    /\ pc = "nor_ret"
    /\ nerr = Nil
    /\ clock' = [clock EXCEPT !.startTime = clock.now]
    /\ IF newRequestFails
       THEN /\ ret' = [resp |-> DTOResponse(0, 0, clock.now, 0, Nil, Nil,
                                            "failed to create http request"),
                       err |-> Nil]
            /\ scope' = "released"
            /\ ended' = ended
            /\ wire' = wire
            /\ pc' = "returned"
       ELSE /\ ret' = ret
            /\ ended' = IF ended = "none" /\ I64LessEq(req.Timeout, I64Zero)
                        THEN "timeout" ELSE ended
            /\ scope' = IF ended # "none" \/ I64LessEq(req.Timeout, I64Zero)
                        THEN "ended" ELSE "active"
            /\ wire' = Append(wire, HTTPRequest(req))
            /\ pc' = "do"
    /\ defers' = IF newRequestFails THEN << "cancel" >> ELSE defers
    /\ hops' = IF newRequestFails THEN hops ELSE << req.URL >>
    /\ UNCHANGED << entry, inbound, dto, lookups, ips, req, nerr, doErr,
                    httpResp, reader, out, verdict, auth, globals, peer >>

\* where a target's 3xx response can point: the link-local metadata address,
\* http://169.254.169.254/
SampleLocations ==
    { url_Parse(S_http \o <<":","/","/","1","6","9",".","2","5","4",".",
                            "1","6","9",".","2","5","4","/">>) }

\* inside httpClient.Do: the target answers with a redirect to loc; the
\* client, built with no CheckRedirect, applies the default policy of
\* net/http and sends the request to loc (up to 10 times; MaxRedirects here)
Do_FollowsRedirect(loc) ==
    /\ pc = "do"
    /\ scope = "active"
    /\ Len(hops) <= MaxRedirects
    /\ loc \in SampleLocations
    /\ hops' = Append(hops, loc)
    /\ clock' = Tick(clock)
    /\ UNCHANGED << pc, entry, inbound, dto, lookups, ips, req, nerr, scope,
                    ended, wire, doErr, httpResp, reader, ret, out, defers,
                    verdict, auth, globals, peer >>

\* an Execute that gives the request to Do a second time when Do fails
Execute_DoFails_Retry(why) ==
    /\ pc = "do"
    /\ why \in DoFailures
    /\ why = IF ended # "none" THEN ended ELSE "connection refused"
    /\ doErr' = DoError(DoCause(why))
    /\ clock' = [Tick(clock) EXCEPT !.duration = Since(Tick(clock))]
    /\ IF Len(wire) < 2
       THEN /\ wire' = Append(wire, HTTPRequest(req))
            /\ ret' = ret /\ scope' = scope /\ pc' = pc
       ELSE /\ ret' = [resp |-> Nil, err |-> executeError(DoError(DoCause(why)))]
            /\ scope' = "released"
            /\ pc' = "returned"
            /\ wire' = wire
    /\ defers' = IF Len(wire) < 2 THEN defers ELSE Append(defers, "cancel")
    /\ UNCHANGED << entry, inbound, dto, lookups, ips, req, nerr, ended,
                    httpResp, reader, out, hops, verdict, auth, globals, peer >>

\* Do returns an error: the error of reqCtx when reqCtx has ended, a failure
\* of the network otherwise; duration := time.Since(startTime)
Execute_DoFails(why) ==
    /\ pc = "do"
    /\ why \in DoFailures
    /\ why = IF ended # "none" THEN ended ELSE "connection refused"
    /\ doErr' = DoError(DoCause(why))
    /\ clock' = [Tick(clock) EXCEPT !.duration = Since(Tick(clock))]
    /\ ret' = [resp |-> Nil, err |-> executeError(DoError(DoCause(why)))]
    /\ scope' = "released"
    /\ pc' = "returned"
    /\ defers' = Append(defers, "cancel")
    /\ UNCHANGED << entry, inbound, dto, lookups, ips, req, nerr, ended, wire,
                    httpResp, reader, out, hops, verdict, auth, globals, peer >>

\* Do returns the target's response (one of the samples, or the echo of the
\* request; after a redirect, the response of the last location);
\* duration := time.Since(startTime); httpResponseToDTOResponse starts
\* reading
Execute_DoResponds(r) ==
    /\ pc = "do"
    /\ scope = "active"
    /\ r \in TargetResponses(wire[1])
    /\ Len(hops) > 1 => r \in RedirectedResponses
    /\ httpResp' = r
    /\ clock' = [Tick(clock) EXCEPT !.duration = Since(Tick(clock))]
    /\ reader' = [N |-> maxResponseBodySize, got |-> 0, short |-> 0, err |-> ""]
    /\ pc' = "reading"
    /\ UNCHANGED << entry, inbound, dto, lookups, ips, req, nerr, scope,
                    ended, wire, doErr, ret, out, defers, hops, verdict, auth,
                    globals, peer >>

(***************************************************************************)
(* httpResponseToDTOResponse: io.ReadAll over an io.LimitedReader.         *)
(***************************************************************************)
\* why a Read of the body can fail: reqCtx has ended, or the connection breaks
ReadFailures == EndReasons \cup { "unexpected EOF" }

\* the bytes one Read of the LimitedReader may ask the body for
readLimit == IF reader.N < httpResp.BodyLen - reader.got
             THEN reader.N ELSE httpResp.BodyLen - reader.got

\* a conversion that keeps the bytes read before a failure of the read
responseOf_KeepsPartialBody(r, duration, timestamp, got, n, err) ==
    DTOResponse(r.StatusCode, duration, timestamp, got, r.Header, Bytes(got),
                IF err # "" THEN "failed to read response body"
                ELSE IF n <= 0 THEN "response body truncated due to size limit" ELSE "")

\* a conversion that reports truncation only for limitedReader.N < 0
responseOf_StrictLimit(r, duration, timestamp, got, n, err) ==
    IF err # ""
    THEN DTOResponse(r.StatusCode, duration, timestamp, 0, r.Header, Nil,
                     "failed to read response body")
    ELSE DTOResponse(r.StatusCode, duration, timestamp, got, r.Header, Bytes(got),
                     IF n < 0 THEN "response body truncated due to size limit" ELSE "")

\* the response httpResponseToDTOResponse(resp, duration, timestamp) builds
\* once io.ReadAll has returned (bodyBytes, err), with the N left in the
\* LimitedReader; err is the cause, "" for a nil error
responseOf(r, duration, timestamp, got, n, err) ==
    IF err # ""
    THEN DTOResponse(r.StatusCode, duration, timestamp, 0, r.Header, Nil,
                     "failed to read response body")
    ELSE DTOResponse(r.StatusCode, duration, timestamp, got, r.Header, Bytes(got),
                     IF n <= 0 THEN "response body truncated due to size limit" ELSE "")

\* one Read returns k bytes: all it may (readLimit) or, a bounded number of
\* times, a single byte
Read_Chunk(k) ==
    /\ pc = "reading"
    /\ scope = "active"
    /\ reader.N > 0
    /\ k \in 1..readLimit
    /\ k = readLimit \/ (reader.short < MaxShortReads /\ k = 1)
    /\ reader' = [reader EXCEPT !.N = reader.N - k, !.got = reader.got + k,
                  !.short = IF k = readLimit THEN reader.short ELSE reader.short + 1]
    /\ clock' = Tick(clock)
    /\ UNCHANGED << pc, entry, inbound, dto, lookups, ips, req, nerr, scope,
                    ended, wire, doErr, httpResp, ret, out, defers, hops,
                    verdict, auth, globals, peer >>

\* Read returns io.EOF (the limit is used up, and the LimitedReader does not
\* ask the body; or the body is at its end): ReadAll returns the bytes with
\* a nil error
Read_EOF ==
    /\ pc = "reading"
    /\ reader.N <= 0 \/ (reader.got = httpResp.BodyLen /\ scope = "active")
    /\ ret' = [resp |-> responseOf(httpResp, clock.duration, clock.startTime,
                                   reader.got, reader.N, ""),
               err |-> Nil]
    /\ scope' = "released"
    /\ pc' = "returned"
    /\ defers' = defers \o << "resp.Body.Close", "cancel" >>
    /\ UNCHANGED << entry, inbound, dto, lookups, ips, req, nerr, ended, wire,
                    doErr, httpResp, reader, clock, out, hops, verdict, auth,
                    globals, peer >>

\* a conversion that returns on a failed read before it closes the body
Read_Fails_BodyLeftOpen(why) ==
    /\ pc = "reading"
    /\ reader.N > 0
    /\ why \in ReadFailures
    /\ why = IF ended # "none" THEN ended ELSE "unexpected EOF"
    /\ reader' = [reader EXCEPT !.err = DoCause(why)]
    /\ clock' = Tick(clock)
    /\ ret' = [resp |-> responseOf(httpResp, clock.duration, clock.startTime,
                                   reader.got, reader.N, DoCause(why)),
               err |-> Nil]
    /\ scope' = "released"
    /\ pc' = "returned"
    /\ defers' = Append(defers, "cancel")
    /\ UNCHANGED << entry, inbound, dto, lookups, ips, req, nerr, ended, wire,
                    doErr, httpResp, out, hops, verdict, auth, globals, peer >>

\* Read of the body fails (with the error of reqCtx when reqCtx has ended,
\* with a broken connection otherwise): ReadAll returns the bytes read so
\* far and the error
Read_Fails(why) ==
    /\ pc = "reading"
    /\ reader.N > 0
    /\ why \in ReadFailures
    /\ why = IF ended # "none" THEN ended ELSE "unexpected EOF"
    /\ reader' = [reader EXCEPT !.err = DoCause(why)]
    /\ clock' = Tick(clock)
    /\ ret' = [resp |-> responseOf(httpResp, clock.duration, clock.startTime,
                                   reader.got, reader.N, DoCause(why)),
               err |-> Nil]
    /\ scope' = "released"
    /\ pc' = "returned"
    /\ defers' = defers \o << "resp.Body.Close", "cancel" >>
    /\ UNCHANGED << entry, inbound, dto, lookups, ips, req, nerr, ended, wire,
                    doErr, httpResp, out, hops, verdict, auth, globals, peer >>

(***************************************************************************)
(* HTTPProxyHandler.ServeHTTP, after ProcessRequest has returned.          *)
(***************************************************************************)
\* a handler that answers 500 to every error of the service
answerOf_AllInternal(resp, err) ==
    IF err # Nil
    THEN ErrorAnswer(500, "An internal error occurred")
    ELSE [code |-> 200, payload |-> resp]

\* the answer to what ProcessRequest returned
answerOf(resp, err) ==
    IF err # Nil
    THEN IF errors_Is(err, ErrInvalidInput) THEN ErrorAnswer(400, err.msg)
         ELSE IF errors_Is(err, ErrRequestTimeout) THEN ErrorAnswer(504, err.msg)
         ELSE ErrorAnswer(500, "An internal error occurred")
    ELSE [code |-> 200, payload |-> resp]

ServeHTTP_Respond ==
    /\ pc = "returned"
    /\ entry = "handler"
    /\ out' = answerOf(ret.resp, ret.err)
    /\ pc' = "done"
    /\ UNCHANGED << entry, inbound, dto, lookups, ips, req, nerr, scope,
                    ended, wire, doErr, httpResp, reader, clock, ret, defers,
                    hops, verdict, auth, globals, peer >>

\* the sizes a Read may return: see Read_Chunk
ReadSizes == IF pc = "reading" THEN {1, readLimit} ELSE {}

Next ==
    \/ ServeHTTP_MethodNotAllowed
    \/ ServeHTTP_BadJSON
    \/ pc = "idle" /\ \E d \in DTORequest, ok \in BOOLEAN : ServeHTTP_Decoded(d, ok)
    \/ pc = "idle" /\ \E d \in DTORequest : ProcessRequest_Call(d)
    \/ newOutboundRequest_Check
    \/ pc = "nor_dns" /\ \E answer \in {Nil} \cup SampleIPLists : newOutboundRequest_Lookup(answer)
    \/ ProcessRequest_Reject
    \/ \E why \in EndReasons : Context_Ends(why)
    \/ \E f \in BOOLEAN : Execute_Start(f)
    \/ \E why \in DoFailures : Execute_DoFails(why)
    \/ \E loc \in SampleLocations : Do_FollowsRedirect(loc)
    \/ pc = "do" /\ \E r \in TargetResponses(wire[1]) : Execute_DoResponds(r)
    \/ \E k \in ReadSizes : Read_Chunk(k)
    \/ Read_EOF
    \/ \E why \in ReadFailures : Read_Fails(why)
    \/ ServeHTTP_Respond

Spec == Init /\ [][Next]_vars

\* a call of Do or Read under a context that has ended returns, and so does
\* a Read at the end of the body or of the limit: the calls Execute waits in
\* do not block for ever
FairSpec ==
    /\ Spec
    /\ WF_vars(\E why \in DoFailures : Execute_DoFails(why))
    /\ WF_vars(\E why \in ReadFailures : Read_Fails(why))
    /\ WF_vars(Read_EOF)


(***************************************************************************)
(* The SSRF step on its own: isPrivateIP over the addresses of one answer. *)
(***************************************************************************)
\* addresses around every edge of the ranges isPrivateIP names: IPv4, the
\* same in IPv4-mapped form, and IPv6
ProbeIPv4 ==
    { IPv4(a, b, c, 1) :
        a \in { 9, 10, 11, 126, 127, 128, 168, 169, 170, 171, 172, 173, 191, 192,
                193, 223, 224, 225 },
        b \in { 0, 15, 16, 17, 31, 32, 167, 168, 169, 253, 254, 255 },
        c \in { 0, 1 } }
ProbeIPv6 ==
    { IPv6(b1, b2, last) :
        b1 \in { 0, 32, 253, 254, 255 },
        b2 \in { 0, 1, 2, 18, 127, 128, 191, 192 },
        last \in { 0, 1, 2 } }
ProbeIPs ==
    ProbeIPv4 \cup { IPv4Mapped(ip[1], ip[2], ip[3], ip[4]) : ip \in ProbeIPv4 }
              \cup ProbeIPv6

\* the answers the step is tried on: every probe by itself, and the lists of
\* up to MaxIPs sample and edge addresses
ProbeLists ==
    { << ip >> : ip \in ProbeIPs }
    \cup UNION { [1..n -> SampleIPs \cup { IPv4(172, 15, 0, 1), IPv4(172, 32, 0, 1),
                                          IPv4(11, 0, 0, 1), IPv4(192, 169, 0, 1),
                                          IPv4Mapped(10, 0, 0, 1) }] : n \in 2..MaxIPs }

\* for _, ip := range ips { if isPrivateIP(ip) { return nil, ... } } on the
\* answer addrs
SSRFStep(addrs) ==
    /\ pc = "idle"
    /\ verdict = Nil
    /\ addrs \in ProbeLists
    /\ verdict' = [addrs    |-> addrs,
                   private  |-> [i \in DOMAIN addrs |-> isPrivateIP(addrs[i])],
                   rejected |-> anyPrivateIP(addrs)]
    /\ UNCHANGED << pc, entry, inbound, dto, lookups, ips, req, nerr, scope,
                    ended, wire, doErr, httpResp, reader, clock, ret, out,
                    defers, hops, auth, globals, peer >>

IPNext == \E addrs \in ProbeLists : SSRFStep(addrs)

IPSpec == Init /\ [][IPNext]_vars

(***************************************************************************)
(* The Register requests: AuthHandler.Register calls authService.Register, *)
(* which asks the users table twice (GetByEmail, then Create), each query  *)
(* a statement of its own.                                                 *)
(***************************************************************************)
\* the rows of users with this email
RowsOf(email) == { i \in DOMAIN auth.users : auth.users[i].Email = email }

\* the variables of the first proxy call and of what the calls share
proxyVars == << pc, entry, inbound, dto, lookups, ips, req, nerr, scope,
                ended, wire, doErr, httpResp, reader, clock, ret, out, defers,
                hops, verdict, globals >>

\* AuthHandler.Register up to the call of the service: the body decodes and
\* passes validate.Struct (valid), or the answer is 400
AuthHandler_Register(c, email, valid) ==
    /\ auth.calls[c].pc = "idle"
    /\ auth' = [auth EXCEPT !.calls[c] =
                  IF valid
                  THEN [@ EXCEPT !.pc = "GetByEmail", !.email = email]
                  ELSE [@ EXCEPT !.pc = "done", !.answer = 400]]
    /\ UNCHANGED << proxyVars, peer >>

\* existingUser, err := s.userRepo.GetByEmail(ctx, userReg.Email), and the
\* two returns that follow it
Register_GetByEmail(c, dbFails) ==
    /\ auth.calls[c].pc = "GetByEmail"
    /\ auth' = [auth EXCEPT !.calls[c] =
                  IF dbFails
                  THEN [@ EXCEPT !.pc = "returned",
                                 !.err = Wrapf("error checking for existing email",
                                               BadConnection)]
                  ELSE IF RowsOf(auth.calls[c].email) # {}
                  THEN [@ EXCEPT !.pc = "returned", !.err = EmailTaken]
                  ELSE [@ EXCEPT !.pc = "Create"]]
    /\ UNCHANGED << proxyVars, peer >>

\* bcrypt.GenerateFromPassword, then newUserID, err := s.userRepo.Create(ctx,
\* &user): the INSERT adds a row with the next id unless the query fails or a
\* row with this email is there (email VARCHAR(255) UNIQUE NOT NULL)
Register_Create(c, hashFails, dbFails) ==
    /\ auth.calls[c].pc = "Create"
    /\ LET call == auth.calls[c]
           row  == [ID |-> Len(auth.users) + 1, Email |-> call.email]
       IN  IF hashFails
           THEN auth' = [auth EXCEPT !.calls[c] =
                           [@ EXCEPT !.pc = "returned",
                                     !.err = Wrapf("error hashing password",
                                                   DBError("bcrypt: password length exceeds 72 bytes"))]]
           ELSE IF dbFails
           THEN auth' = [auth EXCEPT !.calls[c] =
                           [@ EXCEPT !.pc = "returned",
                                     !.err = Wrapf("failed to create user", BadConnection)]]
           ELSE IF RowsOf(call.email) # {}
           THEN auth' = [auth EXCEPT !.calls[c] =
                           [@ EXCEPT !.pc = "returned",
                                     !.err = Wrapf("failed to create user", UniqueViolation)]]
           ELSE auth' = [auth EXCEPT !.users = Append(@, row),
                                     !.calls[c] = [@ EXCEPT !.pc = "returned", !.user = row]]
    /\ UNCHANGED << proxyVars, peer >>

\* the status AuthHandler.Register answers with for (user, err)
registerAnswerOf(err) ==
    IF err # Nil
    THEN IF ContainsAlreadyTaken(err) THEN 409 ELSE 500
    ELSE 201

\* AuthHandler.Register once the service has returned
AuthHandler_Respond(c) ==
    /\ auth.calls[c].pc = "returned"
    /\ auth' = [auth EXCEPT !.calls[c].pc = "done",
                             !.calls[c].answer = registerAnswerOf(auth.calls[c].err)]
    /\ UNCHANGED << proxyVars, peer >>

AuthNext ==
    \E c \in AuthCalls :
        \/ \E email \in AuthEmails, valid \in BOOLEAN : AuthHandler_Register(c, email, valid)
        \/ \E dbFails \in BOOLEAN : Register_GetByEmail(c, dbFails)
        \/ \E hashFails \in BOOLEAN, dbFails \in BOOLEAN : Register_Create(c, hashFails, dbFails)
        \/ AuthHandler_Respond(c)

AuthSpec == Init /\ [][AuthNext]_vars

(***************************************************************************)
(* Two ProcessRequest calls on one HTTPProxyService at the same time: the  *)
(* call of the variables above, and a second one (peer) that takes         *)
(* newOutboundRequest in the same two steps and Execute in one.            *)
(***************************************************************************)
\* the descriptions and the answers of resolver and target the two calls are
\* tried with
ConcRequests ==
    { PlainRequest,
      [PlainRequest EXCEPT !.Method = <<"t","r","a","c","e">>],
      [PlainRequest EXCEPT !.Method = <<"g","E","t">>,
                           !.Headers = HeaderMap({K_authorization, K_accept}, "1", "2")] }
ConcAnswers == { Nil, << PublicIP >>, << IPv4(10, 0, 0, 5) >> }

\* outboundRequest, err := newOutboundRequest(dto), entered by the peer
Peer_ProcessRequest(d) ==
    /\ peer.pc = "idle"
    /\ peer' = [peer EXCEPT !.pc = "nor", !.inbound = d, !.dto = d]
    /\ UNCHANGED << proxyVars, auth >>

\* the peer's call after the checks made before its lookup: rejected with the
\* first error e, or about to call net.LookupIP
Peer_Checked(p, method, e) ==
    IF e # Nil
    THEN [p EXCEPT !.dto.Method = method, !.nerr = e,
                   !.ret = [resp |-> Nil, err |-> e], !.pc = "returned"]
    ELSE [p EXCEPT !.dto.Method = method, !.pc = "nor_dns"]

\* the peer's newOutboundRequest up to the call of net.LookupIP, or to the
\* first rejection and the return of ProcessRequest
Peer_Check ==
    /\ peer.pc = "nor"
    /\ peer' = Peer_Checked(peer, strings_ToUpper(peer.dto.Method),
                            preLookupError(strings_ToUpper(peer.dto.Method),
                                           peer.dto.URL))
    /\ UNCHANGED << proxyVars, auth >>

\* net.LookupIP answers the peer; the rest of its newOutboundRequest
Peer_Lookup(answer) ==
    /\ peer.pc = "nor_dns"
    /\ answer \in ConcAnswers
    /\ LET e == postLookupError(answer, peer.dto.Timeout)
       IN  peer' = IF e # Nil
                   THEN [peer EXCEPT !.ips = answer, !.nerr = e,
                                     !.ret = [resp |-> Nil, err |-> e],
                                     !.pc = "returned"]
                   ELSE [peer EXCEPT !.ips = answer, !.req = OutboundRequest(peer.dto),
                                     !.pc = "do"]
    /\ UNCHANGED << proxyVars, auth >>

\* the peer's Execute: Do fails (r = Nil: connection refused) or returns r,
\* whose body is read to its end or to the limit
Peer_Execute(r) ==
    /\ peer.pc = "do"
    /\ r \in { Nil } \cup RedirectedResponses
    /\ peer' = [peer EXCEPT
                  !.httpResp = r,
                  !.ret = IF r = Nil
                          THEN [resp |-> Nil,
                                err |-> executeError(DoError("connection refused"))]
                          ELSE [resp |-> responseOf(r, 0, 0, r.BodyLen,
                                                    maxResponseBodySize - r.BodyLen, ""),
                                err |-> Nil],
                  !.pc = "returned"]
    /\ UNCHANGED << proxyVars, auth >>

ConcNext ==
    \/ pc = "idle" /\ \E d \in ConcRequests : ProcessRequest_Call(d)
    \/ newOutboundRequest_Check
    \/ pc = "nor_dns" /\ \E answer \in ConcAnswers : newOutboundRequest_Lookup(answer)
    \/ ProcessRequest_Reject
    \/ Execute_Start(FALSE)
    \/ Execute_DoFails("connection refused")
    \/ pc = "do" /\ \E r \in RedirectedResponses : Execute_DoResponds(r)
    \/ \E k \in ReadSizes : Read_Chunk(k)
    \/ Read_EOF
    \/ peer.pc = "idle" /\ \E d \in ConcRequests : Peer_ProcessRequest(d)
    \/ Peer_Check
    \/ peer.pc = "nor_dns" /\ \E answer \in ConcAnswers : Peer_Lookup(answer)
    \/ peer.pc = "do" /\ \E r \in { Nil } \cup RedirectedResponses : Peer_Execute(r)

ConcSpec == Init /\ [][ConcNext]_vars

(***************************************************************************)
(* What the claims speak of.                                               *)
(***************************************************************************)
\* newOutboundRequest has returned (a request or an error)
Returned_newOutboundRequest == nerr # Nil \/ req # Nil

\* it returned an error wrapping ErrInvalidInput and no request
Rejected == nerr # Nil /\ errors_Is(nerr, ErrInvalidInput) /\ req = Nil

\* ProcessRequest has returned
Returned_ProcessRequest == ret # Nil

\* Execute has started (its context exists, or a request went to Do)
ExecuteStarted == scope # "none" \/ wire # <<>> \/ pc \in {"do", "reading"}

\* an address of the ranges the validator is to refuse, written from the
\* ranges themselves: 127/8 and ::1, 169.254/16 and fe80::/10, 224.0.0/24
\* and ffx2::/16, 10/8, 172.16/12, 192.168/16
RefusedRange(ip) ==
    IF Len(ip) = 4
    THEN \/ ip[1] = 127
         \/ ip[1] = 169 /\ ip[2] = 254
         \/ ip[1] = 224 /\ ip[2] = 0 /\ ip[3] = 0
         \/ ip[1] = 10
         \/ ip[1] = 172 /\ ip[2] \in 16..31
         \/ ip[1] = 192 /\ ip[2] = 168
    ELSE \/ ip = << 0,0,0,0, 0,0,0,0, 0,0,0,0, 0,0,0,1 >>
         \/ ip[1] = 254 /\ ip[2] \in 128..191
         \/ ip[1] = 255 /\ ip[2] % 16 = 2

\* a and b are the same string up to the case of their letters
SameIgnoringCase(a, b) ==
    /\ Len(a) = Len(b)
    /\ \A i \in DOMAIN a :
          \/ a[i] = b[i]
          \/ \E k \in DOMAIN LowerChars :
                {a[i], b[i]} = {LowerChars[k], UpperChars[k]}

\* the method of the inbound description is, up to case, one of the seven
\* methods of the allow-list
MethodInAllowList ==
    \E m \in { M_GET, M_POST, M_PUT, M_DELETE, M_PATCH, M_HEAD, M_OPTIONS } :
        SameIgnoringCase(inbound.Method, m)

(***************************************************************************)
(* C1: when the resolved list holds an address of a refused range, at any  *)
(* position and beside any number of public addresses, newOutboundRequest  *)
(* returns an error wrapping ErrInvalidInput and no OutboundRequest.       *)
(***************************************************************************)
C1_PrivateAddressRejected ==
    (Returned_newOutboundRequest /\ \E i \in DOMAIN ips : RefusedRange(ips[i]))
        => Rejected

\* a refused address that follows a public one in the answer was rejected
C1_Witness ==
    /\ Returned_newOutboundRequest
    /\ Len(ips) >= 2
    /\ ~RefusedRange(ips[1])
    /\ RefusedRange(ips[Len(ips)])
    /\ Rejected

(***************************************************************************)
(* C2: Execute starts only after newOutboundRequest returned a request     *)
(* (all checks passed, the lookup answered); when a check fails            *)
(* ProcessRequest returns that error and nothing is given to Do.           *)
(***************************************************************************)
C2_ValidationPrecedesExecution ==
    /\ ExecuteStarted =>
          /\ nerr = Nil /\ req # Nil
          /\ Len(lookups) = 1 /\ ips # Nil
          /\ \A i \in DOMAIN ips : ~RefusedRange(ips[i])
          /\ MethodInAllowList
    /\ nerr # Nil =>
          /\ ~ExecuteStarted /\ wire = <<>>
          /\ Returned_ProcessRequest => ret = [resp |-> Nil, err |-> nerr]

\* a request is with Do, after a lookup that answered public addresses
C2_Witness ==
    pc = "do" /\ Len(wire) = 1 /\ nerr = Nil /\ req # Nil /\ Len(ips) >= 1

(***************************************************************************)
(* C3: an allowed method, a non-empty URL and a parsed scheme other than   *)
(* http and https: an error wrapping ErrInvalidInput, and no DNS lookup.   *)
(***************************************************************************)
C3_SchemeRejectedBeforeLookup ==
    ( /\ Returned_newOutboundRequest
      /\ MethodInAllowList
      /\ inbound.URL # <<>>
      /\ url_Parse(inbound.URL).err = ""
      /\ url_Parse(inbound.URL).Scheme \notin { S_http, S_https } )
        => (Rejected /\ lookups = <<>>)

\* an ftp URL, and a URL with no scheme at all, were rejected so
C3_Witness ==
    /\ Returned_newOutboundRequest
    /\ MethodInAllowList
    /\ url_Parse(inbound.URL).err = ""
    /\ url_Parse(inbound.URL).Scheme \in { <<"f","t","p">>, <<>> }
    /\ inbound.URL # <<>>
    /\ Rejected /\ lookups = <<>>

(***************************************************************************)
(* C4: a method that is not, up to case, one of the seven is rejected with *)
(* an error wrapping ErrInvalidInput; one that is, has the outcome (the    *)
(* error, or the request with its upper-cased method) of the description   *)
(* that spells the method as the allow-list does.                          *)
(***************************************************************************)
\* the inbound description with its method as the allow-list spells it
CanonicalInbound ==
    LET m == CHOOSE m \in { M_GET, M_POST, M_PUT, M_DELETE, M_PATCH, M_HEAD, M_OPTIONS } :
                 SameIgnoringCase(inbound.Method, m)
    IN  [inbound EXCEPT !.Method = m]

C4_MethodCaseInsensitive ==
    Returned_newOutboundRequest =>
        /\ ~MethodInAllowList =>
              Rejected /\ nerr.msg = "invalid or unsupported HTTP method"
        /\ MethodInAllowList =>
              /\ nerr # Nil =>
                    LET e == preLookupError(CanonicalInbound.Method, inbound.URL)
                    IN  nerr = IF e # Nil THEN e
                               ELSE postLookupError(ips, inbound.Timeout)
              /\ req # Nil =>
                    /\ req = OutboundRequest(CanonicalInbound)
                    /\ req.Method \in { M_GET, M_POST, M_PUT, M_DELETE, M_PATCH,
                                        M_HEAD, M_OPTIONS }

\* "gEt" produced a request with method GET
C4_Witness ==
    req # Nil /\ inbound.Method = <<"g","E","t">> /\ req.Method = M_GET


(***************************************************************************)
(* C5: for a description that passed the checks before the timeout check:  *)
(* timeout > 90000 ms is rejected with an error wrapping ErrInvalidInput;  *)
(* timeout = 0 gives exactly 30 s; 1 <= timeout <= 90000 gives exactly     *)
(* that many milliseconds.  Stated for every value of the integer field.   *)
(***************************************************************************)
\* the lookup answered, with public addresses only
ReachedTimeoutCheck ==
    Returned_newOutboundRequest /\ ips # Nil /\ \A i \in DOMAIN ips : ~RefusedRange(ips[i])

C5_TimeoutContract ==
    ReachedTimeoutCheck =>
        LET t == inbound.Timeout
        IN  /\ I64Less(I64(90000), t) => Rejected
            /\ t = I64(0) =>
                  req # Nil /\ req.Timeout = I64MulSmall(time_Second, 30)
            /\ (I64LessEq(I64(1), t) /\ I64LessEq(t, I64(90000))) =>
                  req # Nil /\ req.Timeout = I64MulSmall(I64MulSmall(t, 1000), 1000)

(***************************************************************************)
(* C6: in the request given to Do no key that is, up to case, one of       *)
(* Authorization, Cookie, Proxy-Authorization, X-Forwarded-For is present; *)
(* every other key of the caller is, with the caller's values in the       *)
(* caller's order; and no description is rejected for its headers.         *)
(***************************************************************************)
BlockedName(key) ==
    \E b \in { H_Authorization, H_Cookie, H_ProxyAuthorization, H_XForwardedFor } :
        SameIgnoringCase(key, b)

C6_BlockedHeadersStripped ==
    /\ wire # <<>> =>
          LET sent == wire[1].Header
          IN  /\ \A k \in DOMAIN sent : ~BlockedName(k)
              /\ \A k \in DOMAIN inbound.Headers :
                    ~BlockedName(k) => (k \in DOMAIN sent /\ sent[k] = inbound.Headers[k])
              /\ DOMAIN sent \subseteq DOMAIN inbound.Headers
    /\ nerr # Nil =>
          nerr.msg \in { "invalid or unsupported HTTP method", "URL cannot be empty",
                         "failed to parse URL", "invalid URL scheme",
                         "could not resolve hostname",
                         "requests to private IP addresses are not allowed",
                         "timeout exceeds the maximum allowed limit" }

\* a request went to Do without the caller's "authorization" and with the
\* caller's "accept" and its two values in order
C6_Witness ==
    /\ wire # <<>>
    /\ K_authorization \in DOMAIN inbound.Headers
    /\ K_authorization \notin DOMAIN wire[1].Header
    /\ K_accept \in DOMAIN wire[1].Header
    /\ wire[1].Header[K_accept] = << "1", "2" >>

(***************************************************************************)
(* C7: a target body longer than maxResponseBodySize, read without error:  *)
(* Execute returns a nil error and a response whose body is the first      *)
(* maxResponseBodySize bytes, whose size is maxResponseBodySize, whose     *)
(* error field is set, with the status code and headers of the target.     *)
(***************************************************************************)
C7_TruncationIsSuccess ==
    ( /\ Returned_ProcessRequest
      /\ httpResp # Nil
      /\ httpResp.BodyLen > 10 * 1024 * 1024
      /\ reader.err = "" )
        => /\ ret.err = Nil
           /\ ret.resp # Nil
           /\ ret.resp.Body = Bytes(10 * 1024 * 1024)
           /\ ret.resp.Size = 10 * 1024 * 1024
           /\ ret.resp.Error # ""
           /\ ret.resp.StatusCode = httpResp.StatusCode
           /\ ret.resp.Headers = httpResp.Header

\* an oversized body, read in more than one Read, came back truncated
C7_Witness ==
    /\ Returned_ProcessRequest
    /\ httpResp # Nil
    /\ httpResp.BodyLen > 10 * 1024 * 1024
    /\ reader.err = ""
    /\ reader.short > 0
    /\ ret.resp.Size = 10 * 1024 * 1024

(***************************************************************************)
(* C8: when reqCtx's deadline elapses while Do is in progress, Execute     *)
(* returns no response and an error wrapping ErrRequestTimeout; when Do    *)
(* fails for another reason, it returns no response and an error wrapping  *)
(* the cause, and neither ErrRequestTimeout nor ErrInvalidInput.           *)
(***************************************************************************)
C8_TimeoutDistinguished ==
    (Returned_ProcessRequest /\ doErr # Nil) =>
        /\ ret.resp = Nil
        /\ ret.err # Nil
        /\ IF ended \in {"timeout", "parentDeadline"}
           THEN errors_Is(ret.err, ErrRequestTimeout)
           ELSE /\ errors_Is(ret.err, doErr.chain[Len(doErr.chain)])
                /\ ~errors_Is(ret.err, ErrRequestTimeout)
                /\ ~errors_Is(ret.err, ErrInvalidInput)

\* the timeout of the call ran out in Do, and the call returned a timeout
C8_Witness ==
    /\ Returned_ProcessRequest
    /\ doErr # Nil
    /\ ended = "timeout"
    /\ ret.resp = Nil
    /\ errors_Is(ret.err, ErrRequestTimeout)

(***************************************************************************)
(* C9: at most one request is given to Do in a call, and the call ends in  *)
(* exactly one of: input error, success, success with degradation, timeout *)
(* failure, execution failure.                                             *)
(***************************************************************************)
Outcomes ==
    { o \in { "input error", "success", "degraded", "timeout", "failure" } :
        CASE o = "input error" -> ret.resp = Nil /\ errors_Is(ret.err, ErrInvalidInput)
          [] o = "success"     -> ret.err = Nil /\ ret.resp # Nil /\ ret.resp.Error = ""
          [] o = "degraded"    -> ret.err = Nil /\ ret.resp # Nil /\ ret.resp.Error # ""
          [] o = "timeout"     -> ret.resp = Nil /\ errors_Is(ret.err, ErrRequestTimeout)
          [] o = "failure"     -> /\ ret.resp = Nil /\ ret.err # Nil
                                  /\ ~errors_Is(ret.err, ErrInvalidInput)
                                  /\ ~errors_Is(ret.err, ErrRequestTimeout) }

C9_SingleAttemptSingleOutcome ==
    /\ Len(wire) <= 1
    /\ Returned_ProcessRequest =>
          /\ Cardinality(Outcomes) = 1
          /\ pc \in {"returned", "done"}
          /\ "input error" \in Outcomes => wire = <<>>
          /\ doErr # Nil => Outcomes \subseteq {"timeout", "failure"}

\* a call whose only attempt was refused its connection returned a failure
C9_Witness ==
    /\ Returned_ProcessRequest
    /\ Len(wire) = 1
    /\ doErr # Nil
    /\ Outcomes = {"failure"}

(***************************************************************************)
(* C10: the handler answers 400 to an error wrapping ErrInvalidInput, 504  *)
(* to one wrapping ErrRequestTimeout, 500 with "An internal error          *)
(* occurred" to any other, and 200 with the response to every result       *)
(* without error, truncated and read-failed ones included.                 *)
(***************************************************************************)
C10_HandlerStatusMapping ==
    (pc = "done" /\ entry = "handler" /\ Returned_ProcessRequest) =>
        /\ errors_Is(ret.err, ErrInvalidInput) =>
              out.code = 400 /\ out.payload = [error |-> ret.err.msg]
        /\ errors_Is(ret.err, ErrRequestTimeout) =>
              out.code = 504 /\ out.payload = [error |-> ret.err.msg]
        /\ ( /\ ret.err # Nil
             /\ ~errors_Is(ret.err, ErrInvalidInput)
             /\ ~errors_Is(ret.err, ErrRequestTimeout) ) =>
              out = [code |-> 500, payload |-> [error |-> "An internal error occurred"]]
        /\ ret.err = Nil => out = [code |-> 200, payload |-> ret.resp]

\* the handler answered 504 to a timeout of the service
C10_Witness ==
    /\ pc = "done" /\ entry = "handler" /\ Returned_ProcessRequest
    /\ out.code = 504 /\ errors_Is(ret.err, ErrRequestTimeout)


(***************************************************************************)
(* C11: when net.LookupIP fails, newOutboundRequest returns an error       *)
(* wrapping ErrInvalidInput (and neither ErrRequestTimeout nor the error   *)
(* of an execution failure), no OutboundRequest, and nothing is given to   *)
(* Do in that call.                                                        *)
(***************************************************************************)
\* the lookup was made and answered with an error
LookupFailed == lookups # <<>> /\ pc # "nor_dns" /\ ips = Nil

C11_ResolutionFailureIsInputError ==
    LookupFailed =>
        /\ Rejected
        /\ nerr.chain = << ErrInvalidInput >>
        /\ wire = <<>> /\ ~ExecuteStarted
        /\ Returned_ProcessRequest => ret = [resp |-> Nil, err |-> nerr]

\* a call whose host did not resolve has returned the input error
C11_Witness ==
    /\ LookupFailed
    /\ Returned_ProcessRequest
    /\ lookups = << <<"a", ".", "b">> >>
    /\ errors_Is(ret.err, ErrInvalidInput)
    /\ wire = <<>>


(***************************************************************************)
(* C12: on every path on which Execute returns a response, truncated or    *)
(* not, the response's timestamp is the instant Execute started and its    *)
(* duration is the time from that instant to the end of the read of the    *)
(* body (the instant Execute returns), not to the arrival of the headers.  *)
(***************************************************************************)
\* Execute has returned a response and a nil error
ExecuteSucceeded ==
    Returned_ProcessRequest /\ wire # <<>> /\ ret.err = Nil /\ ret.resp # Nil

C12_DurationCoversBodyRead ==
    ExecuteSucceeded =>
        /\ ret.resp.Timestamp = clock.startTime
        /\ ret.resp.Duration = clock.now - clock.startTime

(***************************************************************************)
(* C13: the scope Execute sends the request and reads the body under ends  *)
(* at the first of the end of the inbound context (cancellation or         *)
(* deadline) and the timeout of the vetted request; once it has ended, the *)
(* call of Do in flight receives no response, the read of the body in      *)
(* flight reads no further byte, and Execute returns.                      *)
(***************************************************************************)
\* Execute is in Do or in the read of the body
InFlight == pc \in { "do", "reading" }

C13_ScopeEndsWithFirstEvent ==
    /\ [](InFlight => scope \in { "active", "ended" })
    /\ [](scope = "active" => ended = "none")
    /\ [][ended # "none" => ended' = ended]_vars
    /\ [][(InFlight /\ ended # "none") =>
            /\ pc' = "returned"
            /\ wire' = wire
            /\ httpResp' = httpResp
            /\ reader' = reader \/ (reader # Nil /\ reader'.got = reader.got)]_vars
    /\ (InFlight /\ ended # "none") ~> (pc \in { "returned", "done" })

\* the cancellation of the inbound context has ended the scope in the
\* middle of the read of a body
C13_Witness ==
    /\ pc = "reading"
    /\ ended = "parentCanceled"
    /\ scope = "ended"
    /\ reader.got > 0
    /\ reader.got < httpResp.BodyLen
    /\ reader.N > 0

(***************************************************************************)
(* C14: round trip.  When the target echoes the method, the header fields  *)
(* and the body it receives, and the body (no longer than                  *)
(* maxResponseBodySize) is read without error, ProcessRequest returns a    *)
(* response with a nil error and an empty error field whose status is the  *)
(* target's, whose headers carry the upper-cased method and the caller's   *)
(* headers without the blocked ones (under the names net/http gives the    *)
(* fields of a response), and whose body is the caller's body, whole.      *)
(***************************************************************************)
\* the target echoed the request and its answer was read without error
EchoedAndRead ==
    /\ Returned_ProcessRequest
    /\ httpResp # Nil
    /\ httpResp.Echo
    /\ reader.err = ""
    /\ len(inbound.Body) <= 10 * 1024 * 1024

C14_RoundTrip ==
    EchoedAndRead =>
        /\ ret.err = Nil
        /\ ret.resp # Nil
        /\ ret.resp.Error = ""
        /\ ret.resp.StatusCode = 200
        /\ ret.resp.Headers[H_XEchoMethod] = << CanonicalInbound.Method >>
        /\ \A k \in DOMAIN inbound.Headers :
              ~BlockedName(k) =>
                  /\ CanonicalHeaderKey(k) \in DOMAIN ret.resp.Headers
                  /\ ret.resp.Headers[CanonicalHeaderKey(k)] = inbound.Headers[k]
        /\ \A c \in DOMAIN ret.resp.Headers : ~BlockedName(c)
        /\ Cardinality(DOMAIN ret.resp.Headers)
              = 1 + Cardinality({ k \in DOMAIN inbound.Headers : ~BlockedName(k) })
        /\ ret.resp.Body = Bytes(len(inbound.Body))
        /\ ret.resp.Size = len(inbound.Body)

(***************************************************************************)
(* C15: newOutboundRequest returns either a request and a nil error, or a  *)
(* nil request and an error wrapping ErrInvalidInput whose reason is one   *)
(* of its seven rejections; never both, never neither.                     *)
(***************************************************************************)
\* the call went through newOutboundRequest, which has returned
Past_newOutboundRequest ==
    \/ pc \in { "nor_ret", "do", "reading", "returned" }
    \/ pc = "done" /\ ret # Nil

RejectionReasons ==
    { "invalid or unsupported HTTP method", "URL cannot be empty",
      "failed to parse URL", "invalid URL scheme", "could not resolve hostname",
      "requests to private IP addresses are not allowed",
      "timeout exceeds the maximum allowed limit" }

C15_RejectionIsClassified ==
    Past_newOutboundRequest =>
        /\ (req = Nil) # (nerr = Nil)
        /\ nerr # Nil =>
              /\ errors_Is(nerr, ErrInvalidInput)
              /\ nerr.msg \in RejectionReasons

\* the last of the checks, the timeout ceiling, rejected a description
C15_Witness ==
    /\ Past_newOutboundRequest
    /\ req = Nil
    /\ errors_Is(nerr, ErrInvalidInput)
    /\ nerr.msg = "timeout exceeds the maximum allowed limit"
    /\ Len(ips) >= 1


(***************************************************************************)
(* C16: on a result of Execute built from the target's response, the error *)
(* field is non-empty if and only if the target's body had more bytes than *)
(* maxResponseBodySize or reading it failed; a body of 0 up to exactly     *)
(* maxResponseBodySize bytes, read without error, has an empty error field.*)
(***************************************************************************)
\* Execute returned what httpResponseToDTOResponse built
ConvertedResponse ==
    Returned_ProcessRequest /\ httpResp # Nil /\ ret.err = Nil /\ ret.resp # Nil

C16_ErrorFieldIffDegraded ==
    ConvertedResponse =>
        (ret.resp.Error # ""
            <=> (httpResp.BodyLen > 10 * 1024 * 1024 \/ reader.err # ""))


(***************************************************************************)
(* C17: when the deadline of Execute's scope elapses after Do has returned *)
(* the target's response and before its body is fully read, Execute        *)
(* returns no response and an error wrapping ErrRequestTimeout.            *)
(***************************************************************************)
\* the deadline put an end to the read of the body
DeadlineDuringBodyRead ==
    /\ Returned_ProcessRequest
    /\ httpResp # Nil
    /\ ended \in { "timeout", "parentDeadline" }
    /\ reader.err = "context.DeadlineExceeded"

C17_DeadlineDuringReadIsTimeout ==
    DeadlineDuringBodyRead =>
        (ret.resp = Nil /\ errors_Is(ret.err, ErrRequestTimeout))


(***************************************************************************)
(* C18: every OutboundRequest newOutboundRequest returns, for any value of *)
(* the description's timeout (negative ones and ones whose conversion to   *)
(* nanoseconds wraps included), has 0 < Timeout <= 90 s.                   *)
(***************************************************************************)
C18_TimeoutWithinBounds ==
    req # Nil =>
        /\ I64Less(I64(0), req.Timeout)
        /\ I64LessEq(req.Timeout, I64MulSmall(I64MulSmall(I64(90000), 1000), 1000))


(***************************************************************************)
(* C19: the checks are applied in the order method, empty URL, URL parse,  *)
(* scheme, DNS resolution, private address, timeout ceiling: the reason    *)
(* returned is that of the first check that fails, and the lookup is made  *)
(* exactly when the first four pass (a too large timeout is found only     *)
(* after it).                                                              *)
(***************************************************************************)
\* the first four checks, on the description as the caller gave it
PassesChecksBeforeLookup ==
    /\ MethodInAllowList
    /\ inbound.URL # <<>>
    /\ url_Parse(inbound.URL).err = ""
    /\ url_Parse(inbound.URL).Scheme \in { S_http, S_https }

\* the reason of the first failing check, given that one failed
FirstFailingCheck ==
    IF ~MethodInAllowList THEN "invalid or unsupported HTTP method"
    ELSE IF inbound.URL = <<>> THEN "URL cannot be empty"
    ELSE IF url_Parse(inbound.URL).err # "" THEN "failed to parse URL"
    ELSE IF url_Parse(inbound.URL).Scheme \notin { S_http, S_https }
    THEN "invalid URL scheme"
    ELSE IF ips = Nil THEN "could not resolve hostname"
    ELSE IF \E i \in DOMAIN ips : RefusedRange(ips[i])
    THEN "requests to private IP addresses are not allowed"
    ELSE "timeout exceeds the maximum allowed limit"

C19_ChecksInOrder ==
    Past_newOutboundRequest =>
        /\ (lookups # <<>>) <=> PassesChecksBeforeLookup
        /\ Len(lookups) <= 1
        /\ nerr # Nil => nerr.msg = FirstFailingCheck
        /\ req # Nil =>
              /\ PassesChecksBeforeLookup
              /\ ips # Nil /\ \A i \in DOMAIN ips : ~RefusedRange(ips[i])

\* a description with an unknown method and no URL was rejected for its
\* method, without a lookup
C19_Witness ==
    /\ Past_newOutboundRequest
    /\ inbound.Method = <<"t","r","a","c","e">>
    /\ inbound.URL = <<>>
    /\ nerr # Nil /\ nerr.msg = "invalid or unsupported HTTP method"
    /\ lookups = <<>>


(***************************************************************************)
(* C20: newOutboundRequest leaves the description it is given unchanged:   *)
(* once it has returned, with a request or with an error, the method, url, *)
(* headers, body and timeout of the description are what they were before  *)
(* the call.                                                               *)
(***************************************************************************)
C20_DescriptionUnchanged ==
    Past_newOutboundRequest => dto = inbound


(***************************************************************************)
(* C25: when the read of the body fails after Do returned a response,      *)
(* Execute returns a nil error and a response with the target's status     *)
(* code and headers, size 0, no body (the bytes read before the failure    *)
(* are dropped) and a non-empty error field; and in every response Execute *)
(* returns size is the number of body bytes returned, at most              *)
(* maxResponseBodySize.                                                    *)
(***************************************************************************)
\* the number of bytes in the Body of a response
BodyBytesReturned(resp) == IF resp.Body = Nil THEN 0 ELSE resp.Body.prefix

DoCutShortBy(why) ==
    /\ Returned_ProcessRequest
    /\ doErr # Nil
    /\ ended = why

C28_FailureKindFollowsCause ==
    /\ DoCutShortBy("parentCanceled") =>
          /\ ret.resp = Nil
          /\ ret.err # Nil
          /\ ~errors_Is(ret.err, ErrRequestTimeout)
          /\ ~errors_Is(ret.err, ErrInvalidInput)
          /\ (pc = "done" /\ entry = "handler") => out.code = 500
    /\ \A why \in { "parentDeadline", "timeout" } :
          DoCutShortBy(why) =>
             /\ ret.resp = Nil
             /\ ret.err = TimeoutError(DoError("context.DeadlineExceeded"))
             /\ errors_Is(ret.err, ErrRequestTimeout)
             /\ ~errors_Is(ret.err, ErrInvalidInput)
             /\ (pc = "done" /\ entry = "handler") => out.code = 504

\* the handler has answered a call whose inbound context was cancelled while
\* Do was in flight
C28_Witness ==
    /\ pc = "done"
    /\ entry = "handler"
    /\ DoCutShortBy("parentCanceled")
    /\ wire # <<>>
    /\ out.code = 500


(***************************************************************************)
(* C22: every outcome of Execute is exactly one of a response that carries *)
(* the target's status code with a nil error, an error that wraps          *)
(* ErrRequestTimeout, and a generic execution error; a failure that keeps  *)
(* the outbound call from being made, the failure to construct the         *)
(* outgoing request included, is an error value and never a response with  *)
(* status code 0 and a nil error.                                          *)
(***************************************************************************)
\* Execute has returned: ProcessRequest returned what a started Execute gave
Returned_Execute == Returned_ProcessRequest /\ scope # "none"

C22_ThreeOutcomes ==
    Returned_Execute =>
        /\ \/ /\ ret.err = Nil /\ ret.resp # Nil
              /\ httpResp # Nil
              /\ ret.resp.StatusCode = httpResp.StatusCode
           \/ /\ ret.resp = Nil /\ ret.err # Nil
              /\ errors_Is(ret.err, ErrRequestTimeout)
           \/ /\ ret.resp = Nil /\ ret.err # Nil
              /\ ~errors_Is(ret.err, ErrRequestTimeout)
              /\ ret.err = ExecutionError(doErr)
        /\ (httpResp = Nil) => (ret.err # Nil /\ ret.resp = Nil)
        /\ (ret.err = Nil) => ret.resp.StatusCode # 0


(***************************************************************************)
(* C21: the lookup newOutboundRequest makes respects the cancellation of   *)
(* the inbound caller's context: when that context ends before or while    *)
(* the host name is being resolved, ProcessRequest stops, the lookup is    *)
(* not completed and Execute is not entered.                               *)
(***************************************************************************)
\* newOutboundRequest has returned from a lookup during which the inbound
\* context ended, and Execute has not begun
EndedWhileResolving == pc = "nor_ret" /\ ended \in { "parentCanceled", "parentDeadline" }

\* no answer of the resolver was taken and no request was vetted, so that
\* ProcessRequest returns at line 147 and never reaches line 150
C21_LookupRespectsCancellation ==
    EndedWhileResolving => (ips = Nil /\ req = Nil /\ nerr # Nil)


(***************************************************************************)
(* C24: on every path of Execute the timeout scope is cancelled before     *)
(* Execute returns, and on every path where httpClient.Do returned a       *)
(* response the body of that response is closed exactly once before        *)
(* Execute returns (normal completion, truncation at the size limit, read  *)
(* failure, deadline or cancellation during the read), the body being      *)
(* closed before the scope is cancelled; no body is closed when Do         *)
(* returned no response.                                                   *)
(***************************************************************************)
\* how many times the deferred call f has run
TimesRun(f) == Cardinality({ i \in DOMAIN defers : defers[i] = f })

C24_ReleasedOnEveryPath ==
    /\ Returned_Execute =>
          /\ scope = "released"
          /\ TimesRun("cancel") = 1
          /\ defers[Len(defers)] = "cancel"
          /\ IF httpResp # Nil
             THEN defers = << "resp.Body.Close", "cancel" >>
             ELSE defers = << "cancel" >>
    /\ ~Returned_ProcessRequest => defers = << >>

\* the inbound context was cancelled in the middle of the read of a body, and
\* Execute returned with the body closed and the scope cancelled
C24_Witness ==
    /\ Returned_Execute
    /\ httpResp # Nil
    /\ reader.err = "context.Canceled"
    /\ reader.got > 0
    /\ defers = << "resp.Body.Close", "cancel" >>


(***************************************************************************)
(* C26: during one call of Execute every request the shared httpClient     *)
(* puts on the wire is addressed to the URL of the vetted request; the     *)
(* client sends no request to a location the target's response names (a    *)
(* redirect) that newOutboundRequest never checked.                        *)
(***************************************************************************)
C26_OnlyVettedURLOnWire ==
    \A i \in DOMAIN hops : hops[i] = req.URL


(***************************************************************************)
(* C29: ServeHTTP calls ProcessRequest only for a POST whose body decodes  *)
(* as JSON and passes the validation of the struct (method present, url    *)
(* present and a valid URL, 0 <= timeout <= 90000); otherwise it answers   *)
(* 405 (not a POST), 400 (undecodable JSON) or 400 (validation failure),   *)
(* and neither the service nor a DNS lookup nor an outbound call is        *)
(* reached, the checks being made in that order.                           *)
(***************************************************************************)
\* ServeHTTP has left its first step
Served == entry = "handler" /\ pc # "idle"

\* neither the service, nor a lookup, nor an outbound call was reached
ServiceNotReached ==
    /\ lookups = << >> /\ ips = Nil /\ req = Nil /\ nerr = Nil
    /\ ~ExecuteStarted /\ hops = << >> /\ ret = Nil

C29_HandlerGate ==
    Served =>
        /\ inbound = Nil =>
              /\ pc = "done" /\ out # Nil
              /\ out \in { ErrorAnswer(405, "Invalid request method"),
                           ErrorAnswer(400, "Invalid JSON format") }
              /\ ServiceNotReached
        /\ (inbound # Nil /\ ~tagsHold(inbound)) =>
              /\ pc = "done" /\ out # Nil /\ out.code = 400
              /\ ServiceNotReached
        /\ (inbound # Nil /\ tagsHold(inbound)) =>
              \/ pc \in { "nor", "nor_dns", "nor_ret", "do", "reading", "returned" }
              \/ pc = "done" /\ ret # Nil


(***************************************************************************)
(* C27: isPrivateIP(ip) is true exactly when ip is a loopback address, a   *)
(* link-local unicast or multicast address, or an IPv4 (or IPv4-mapped)    *)
(* address in 10.0.0.0/8, 172.16.0.0/12 (second octet 16..31) or           *)
(* 192.168.0.0/16, and false for every other address (172.15.x.x,          *)
(* 172.32.x.x, 11.x.x.x, 192.169.x.x among them); hence an answer all of   *)
(* whose addresses lie outside those ranges is never rejected by the SSRF  *)
(* step.                                                                   *)
(***************************************************************************)
\* ip, in its 4-byte or its 16-byte form, lies in one of the ranges named
InNamedRanges(ip) ==
    IF Len(ip) = 16 /\ SubSeq(ip, 1, 12) = << 0,0,0,0, 0,0,0,0, 0,0,255,255 >>
    THEN RefusedRange(SubSeq(ip, 13, 16))
    ELSE RefusedRange(ip)

C27_ExactlyTheNamedRanges ==
    verdict # Nil =>
        /\ \A i \in DOMAIN verdict.addrs :
              verdict.private[i] <=> InNamedRanges(verdict.addrs[i])
        /\ verdict.rejected <=> \E i \in DOMAIN verdict.addrs :
                                   InNamedRanges(verdict.addrs[i])

\* two addresses just outside 172.16.0.0/12 were let through together
C27_Witness ==
    /\ verdict # Nil
    /\ verdict.addrs = << IPv4(172, 15, 0, 1), IPv4(172, 32, 0, 1) >>
    /\ verdict.private = << FALSE, FALSE >>
    /\ ~verdict.rejected


(***************************************************************************)
(* C30: Register for an email that belongs to a stored user returns        *)
(* ErrEmailTaken, which the handler answers with 409, and creates no user; *)
(* and so when two Register calls for the same new email run at the same   *)
(* time: exactly one creates the user and the other returns ErrEmailTaken. *)
(* No two stored users share an email.                                     *)
(***************************************************************************)
\* authService.Register has returned to the handler of request c
RegisterReturned(c) ==
    \/ auth.calls[c].pc = "returned"
    \/ auth.calls[c].pc = "done" /\ auth.calls[c].answer # 400

\* request c was refused for its email: Register returned an error that no
\* failure of the database connection or of the hashing caused
RefusedForEmail(c) ==
    /\ RegisterReturned(c)
    /\ auth.calls[c].err # Nil
    /\ ~errors_Is(auth.calls[c].err, "driver: bad connection")
    /\ ~errors_Is(auth.calls[c].err, "error hashing password")

C30_EmailTakenAlsoWhenConcurrent ==
    /\ \A c \in AuthCalls :
          RefusedForEmail(c) =>
             /\ errors_Is(auth.calls[c].err, ErrEmailTaken)
             /\ auth.calls[c].user = Nil
             /\ RowsOf(auth.calls[c].email) # {}
             /\ auth.calls[c].pc = "done" => auth.calls[c].answer = 409
    /\ \A c \in AuthCalls :
          (RegisterReturned(c) /\ auth.calls[c].err = Nil) =>
             /\ auth.calls[c].user # Nil
             /\ auth.users[auth.calls[c].user.ID] = auth.calls[c].user
             /\ auth.calls[c].pc = "done" => auth.calls[c].answer = 201
    /\ \A i, j \in DOMAIN auth.users :
          auth.users[i].Email = auth.users[j].Email => i = j


(***************************************************************************)
(* C23: ProcessRequest calls that run at the same time on one              *)
(* HTTPProxyService, each with a description of its own, do not interact:  *)
(* no call writes allowedMethods, blockedHeaders or a field of the service *)
(* after construction, and the vetted request and the result of each call  *)
(* are, under every interleaving, what the call yields by itself for the   *)
(* same DNS answer and the same behaviour of the target.                   *)
(***************************************************************************)
\* what newOutboundRequest yields for the description d when net.LookupIP
\* answers `answer` (not asked when a check before the lookup fails)
AloneVetting(d, answer) ==
    LET method == strings_ToUpper(d.Method)
        e1 == preLookupError(method, d.URL)
        e2 == postLookupError(answer, d.Timeout)
    IN  IF e1 # Nil THEN [req |-> Nil, err |-> e1]
        ELSE IF e2 # Nil THEN [req |-> Nil, err |-> e2]
        ELSE [req |-> OutboundRequest([d EXCEPT !.Method = method]), err |-> Nil]

\* the first call is past newOutboundRequest with what it yields by itself,
\* and has returned what its own request, resolver and target determine
FirstCallAsAlone ==
    /\ Past_newOutboundRequest =>
          [req |-> req, err |-> nerr] = AloneVetting(inbound, ips)
    /\ Returned_ProcessRequest =>
          ret = IF nerr # Nil THEN [resp |-> Nil, err |-> nerr]
                ELSE IF doErr # Nil THEN [resp |-> Nil, err |-> executeError(doErr)]
                ELSE [resp |-> responseOf(httpResp, clock.duration, clock.startTime,
                                          reader.got, reader.N, reader.err),
                      err |-> Nil]

\* the same for the second call
PeerAsAlone ==
    /\ peer.pc \in { "do", "returned" } =>
          [req |-> peer.req, err |-> peer.nerr] = AloneVetting(peer.inbound, peer.ips)
    /\ peer.pc = "returned" =>
          peer.ret = IF peer.nerr # Nil THEN [resp |-> Nil, err |-> peer.nerr]
                     ELSE IF peer.httpResp = Nil
                     THEN [resp |-> Nil,
                           err |-> ExecutionError(DoError("connection refused"))]
                     ELSE [resp |-> DTOResponse(peer.httpResp.StatusCode, 0, 0,
                                                peer.httpResp.BodyLen,
                                                peer.httpResp.Header,
                                                Bytes(peer.httpResp.BodyLen), ""),
                           err |-> Nil]

C23_CallsDoNotInteract ==
    /\ globals = [allowedMethods |-> { M_GET, M_POST, M_PUT, M_DELETE, M_PATCH,
                                      M_HEAD, M_OPTIONS },
                  blockedHeaders |-> { H_Authorization, H_Cookie,
                                       H_ProxyAuthorization, H_XForwardedFor },
                  httpClient |-> "&http.Client{Transport: transport}"]
    /\ FirstCallAsAlone
    /\ PeerAsAlone

\* the first call returned the target's response to its vetted GET while the
\* second, begun before the first had returned, was rejected for its method
C23_Witness ==
    /\ Returned_ProcessRequest /\ ret.resp # Nil
    /\ inbound.Method = <<"g","E","t">> /\ req.Method = M_GET
    /\ DOMAIN req.Headers = { K_accept }
    /\ peer.pc = "returned"
    /\ peer.inbound.Method = <<"t","r","a","c","e">>
    /\ peer.nerr # Nil /\ peer.req = Nil


====
